---- MODULE Spec2Model ----
(***************************************************************************)
(* Per-call real-time pipeline of the voice-agent orchestrator.            *)
(*                                                                         *)
(* The repository hosts three turn controllers for the same call           *)
(* lifecycle:                                                              *)
(*   "fn"   - _handle_signalwire_media_stream, src/ai_orchestrator.py      *)
(*            (replies are played by a spawned task)                       *)
(*   "orch" - AIOrchestrator._handle_signalwire_media_stream together with *)
(*            _connect_and_handle_media, src/src/ai_orchestrator.py        *)
(*            (replies are played inline by _send_tts_response)            *)
(*   "pipe" - CoreAIPipeline.process_audio_stream driven by                *)
(*            WebSocketServer.handle_websocket, src/src/core_ai_pipeline.py*)
(*            and src/src/server.py (replies played inline by              *)
(*            _stream_tts_response)                                        *)
(* A behaviour of Spec is one call session run by one of them (impl).      *)
(* Awaited collaborators (recognizer, LLM, TTS, peer socket, stores) are   *)
(* the environment: their outcomes are chosen nondeterministically.  One   *)
(* action is the code between two suspension points of a coroutine.        *)
(***************************************************************************)
EXTENDS Integers, Sequences, FiniteSets, TLC

\* ---- bounds of the model ----
MaxEvents == 2   \* recognition events the recognizer emits during a session
MaxChunks == 2   \* audio chunks the TTS stream yields for one utterance
MaxDeliveries == 3  \* webhooks and media frames that start handlers
MaxStoreOps == 3    \* write and clear operations applied to the Session Store
MaxDgEvents == 2    \* recognition events the recognizer produces for one session
MaxTriggers == 3    \* requests to the outbound-call endpoint
MaxFrames == 2      \* media frames the peer sends during a session
MaxVersions == 2    \* later versions of an agent's configuration
MaxUses == 3        \* uses of the configuration after the session has started
MaxTasks == 3       \* tasks an orchestrator creates
MaxConnOps == 4     \* operations on a ConnectionManager

VARIABLES
    impl,      \* which controller runs the session
    pc,        \* position of the controller coroutine
    cont,      \* where the controller resumes after an inline playback
    asrOpen,   \* the recognizer stream is being iterated
    asrEnded,  \* the recognizer stream has emitted its last event
    emitted,   \* number of recognition events emitted so far
    queue,     \* recognition events emitted and not yet consumed
    turn,      \* number of user turns accepted so far
    memory,    \* conversation_memory list (role, turn)
    segments,  \* transcript log of the call, in write order
    llmReqs,   \* the LLM requests issued, in order: turn, system prompt, history
    plays,     \* every playback started in the session, in start order
    curTask,   \* current_tts_task: index into plays, 0 for None
    speaking,  \* Session Store: is_ai_speaking per key
    wsClosed,  \* the peer connection is closed
    sent,      \* sent[i]: frames of playback i delivered to the peer
    bargeIns,  \* indices of the playbacks the controller cancelled on barge-in
    last,      \* the recognition event the controller consumed last
    lastMedia, \* the playback whose media frame was written to the peer last, 0 if none
    faults,    \* failures of collaborators so far: <<kind, turn>>
    closedIn,  \* whether the peer closed during the LLM wait of a turn, or elsewhere
    \* -- call bring-up (webhook and media connections) --
    callRec,   \* status of the CallRecord of each call, "none" when absent
    store,     \* whether the Session Store holds entries of the call
    sessions,  \* media-stream handlers started so far, in start order
    delivered, \* number of webhooks and media connections handled so far
    lastHook,  \* the webhook handled last: its fields and the response given
    \* -- Session Store (Redis) --
    kv,        \* the string stored under each key, Nil when the key is absent
    lastSet,   \* the last write of the speaking flag that returned: setter and value
    fresh,     \* the call was cleared and nothing was written for it since
    probe,     \* the last read: getter, field, result, and lastSet / fresh at that time
    storeOps,  \* number of writes and clears so far
    \* -- the shared DeepgramService --
    queues,    \* every asyncio.Queue created so far, by creation order
    rq,        \* the queue self.results_queue refers to, 0 before the first stream
    dg,        \* per session: state of its result loop, events produced and received
    \* -- outbound call initiation --
    trig,      \* the last request to /trigger-call and the response given
    initiated, \* number of calls originated at the telephony provider
    triggers,  \* number of requests handled so far
    \* -- inbound audio path of one session --
    mode,      \* the controller whose audio path runs, "none" before it starts
    inbox,     \* messages of the peer that arrived on the socket and are unread
    arrived,   \* number of media frames that arrived so far
    stopSent,  \* the peer has sent its stop message
    peerGone,  \* the peer has closed the transport
    ctl,       \* where the controller is: "recv", "events" or "done"
    audioQ,    \* audio_queue of the handler (controller "orch")
    sender,    \* the task _send_audio_to_deepgram: "idle", "running", "done"
    fed,       \* number of audio chunks sent to the recognizer
    conn,      \* the recognizer connection: "none", "open", "closed"
    produced,  \* number of results the recognizer has reported
    results,   \* the results queue of the stream
    gen,       \* the generator process_audio_stream: "idle", "running", "ended"
    heard,     \* number of results the controller has consumed
    \* -- the agent configuration of one call --
    agentRec,  \* version of the agent record in management storage
    storedCfg, \* version of agent_config in the Session Store, NoCfg when absent
    snapshot,  \* the agent_config local of the running handler, NoCfg before it starts
    cfgMode,   \* the controller whose handler runs, "none" before it starts
    cfgUses,   \* the configuration values used so far: what for, and which version
    \* -- the tasks of an AIOrchestrator --
    tasks,     \* state of every task: "none", "running", "cancelling", "done"
    activeTasks, \* _active_tasks
    shutdown,  \* _shutdown_event is set
    closePc,   \* where close() is: "idle", "gathering", "returned"
    gathered,  \* the tasks close() awaits in asyncio.gather
    callbacks, \* finished tasks whose done callback has not run yet
    cancelReq, \* tasks on which close() called cancel()
    refused,   \* number of _create_task calls that raised RuntimeError
    \* -- a ConnectionManager --
    active_connections, \* client ids of the dict, in insertion order
    connection_metadata, \* client ids that have a metadata entry
    groups,    \* the dict of groups in insertion order: id and member set
    cmLast,    \* the last operation: arguments and outcome
    cmOps      \* number of operations performed so far

sessVars == <<impl, pc, cont, asrOpen, asrEnded, emitted, queue, turn, memory,
              segments, llmReqs, plays, curTask, speaking, wsClosed, sent, lastMedia, bargeIns, last, faults, closedIn>>
whVars == <<callRec, store, sessions, delivered, lastHook>>
kvVars == <<kv, lastSet, fresh, probe, storeOps>>
dgVars == <<queues, rq, dg>>
obVars == <<trig, initiated, triggers>>
auVars == <<mode, inbox, arrived, stopSent, peerGone, ctl, audioQ, sender, fed, conn, produced,
            results, gen, heard>>
cfgVars == <<agentRec, storedCfg, snapshot, cfgMode, cfgUses>>
tkVars == <<tasks, activeTasks, shutdown, closePc, gathered, callbacks, cancelReq, refused>>
cmVars == <<active_connections, connection_metadata, groups, cmLast, cmOps>>
vars == <<sessVars, whVars, kvVars, dgVars, obVars, auVars, cfgVars, tkVars, cmVars>>
\* what every step of a call session leaves alone
auxVars == <<store, sessions, delivered, lastHook, kvVars, dgVars, obVars, auVars, cfgVars, tkVars, cmVars>>
\* what a step of call bring-up leaves alone
nonWhVars == <<sessVars, kvVars, dgVars, obVars, auVars, cfgVars, tkVars, cmVars>>
\* what an operation on the Session Store leaves alone
nonKvVars == <<sessVars, whVars, dgVars, obVars, auVars, cfgVars, tkVars, cmVars>>
\* what a step of the recognizer streams leaves alone
nonDgVars == <<sessVars, whVars, kvVars, obVars, auVars, cfgVars, tkVars, cmVars>>
\* what a request to the outbound-call endpoint leaves alone
nonObVars == <<sessVars, whVars, kvVars, dgVars, auVars, cfgVars, tkVars, cmVars>>
\* what a step of the inbound audio path leaves alone
nonAuVars == <<sessVars, whVars, kvVars, dgVars, obVars, cfgVars, tkVars, cmVars>>
\* what a step of the configuration model leaves alone
nonCfgVars == <<sessVars, whVars, kvVars, dgVars, obVars, auVars, tkVars, cmVars>>
\* what a step of the orchestrator's task set leaves alone
nonTkVars == <<sessVars, whVars, kvVars, dgVars, obVars, auVars, cfgVars, cmVars>>
\* what an operation of the ConnectionManager leaves alone
nonCmVars == <<sessVars, whVars, kvVars, dgVars, obVars, auVars, cfgVars, tkVars>>

Calls == {"c1", "c2"}

Controllers == {"fn", "orch", "pipe"}

\* the call a session of Spec belongs to
SessCall == "c1"
\* closedIn while the peer connection is open
NotClosed == [pc |-> "open", turn |-> 0]

\* Session Store keys under which the speaking flag is written:
\* call:<call_id>:is_ai_speaking and call:<websocket.id>:is_ai_speaking
CallKey == "call_id"
WsKey == "websocket_id"
StoreKeys == {CallKey, WsKey}

\* ---- transcripts: strings over a two-letter alphabet ----
Texts == {<< >>, <<" ">>, <<"a">>}

RECURSIVE LStrip(_)
LStrip(t) == IF t # << >> /\ Head(t) = " " THEN LStrip(Tail(t)) ELSE t

RECURSIVE RStrip(_)
RStrip(t) == IF t # << >> /\ t[Len(t)] = " " THEN RStrip(SubSeq(t, 1, Len(t) - 1)) ELSE t

\* str.strip()
Strip(t) == RStrip(LStrip(t))

\* ---- recognition events ----
Event(k, t) == [kind |-> k, text |-> t]
Events == {Event("speech_started", << >>), Event("interim", <<"a">>),
           Event("error", << >>), Event("close", << >>)}
          \cup {Event("final", t) : t \in Texts}

NoEvent == Event("none", << >>)

\* ---- playbacks ----
\* style names the coroutine that streams the utterance
TaskStyles == {"task"}
MarkStyles == {"task", "stream_tts"}
NewPlay(style, kind, t) ==
    [style |-> style, kind |-> kind, turn |-> t, st |-> "next", n |-> 0,
     cancelled |-> FALSE, how |-> "running", silent |-> FALSE]

Alive(i) == plays[i].st # "done"
AlivePlays == {i \in 1..Len(plays) : Alive(i)}

\* ws.send of a media or mark frame of playback i on an open connection
Deliver(i) == [sent EXCEPT ![i] = @ + 1]
\* ws.send of a media frame: the wire now ends with a media frame of playback i
SendMedia(i) == sent' = Deliver(i) /\ lastMedia' = i
\* ws.send of a mark frame
SendMark(i) == sent' = Deliver(i) /\ UNCHANGED lastMedia

\* ---- Session Store: set_call_data / get_call_data on is_ai_speaking ----
StoreSet(s, key, v) == [s EXCEPT ![key] = v]
StoreGet(s, key) == s[key]
\* clear_call_cache(call_id): deletes every call:<call_id>:* key
ClearCallCache(s) == [s EXCEPT ![CallKey] = FALSE]

\* ---- Session Store: src/src/redis_client.py and src/src/services/redis_client.py ----

Nil == "<nil>"
\* fields of a call kept under call:<call_id>:<field>
FlagField == "is_ai_speaking"
CallFields == {"agent_config", "conversation_memory", FlagField, "transcript_history",
               "current_status"}
\* key prefixes of src/src/services/redis_client.py, each followed by :<call_id>
SvPrefixes == {"call", "transcript", "ai_speaking", "memory", "call_state"}
\* keys as token sequences: <<"call", id, field>> is call:<id>:<field>
CallDataKey(call, field) == <<"call", call, field>>
SvKey(prefix, call) == <<prefix, call>>
StoreCall == "c1"
KvKeys == {CallDataKey(StoreCall, f) : f \in CallFields} \cup {SvKey(p, StoreCall) : p \in SvPrefixes}

\* Python values handed to and returned by the client
PyNone == [t |-> "none", v |-> ""]
PyBool(b) == [t |-> "bool", v |-> IF b THEN "T" ELSE "F"]
PyStr(x) == [t |-> "str", v |-> x]
PyDoc == [t |-> "doc", v |-> "<json>"]
\* truth value of a Python value ("get_call_data(...) or False", "if is_ai_speaking")
Truthy(x) ==
    CASE x.t = "none" -> FALSE
      [] x.t = "bool" -> x.v = "T"
      [] x.t = "str" -> x.v # ""
      [] OTHER -> TRUE

\* str(value) of a bool, the text a client that accepts bools sends
StrOfBool(b) == IF b THEN "True" ELSE "False"
\* str(is_speaking).lower()
LowerStrOfBool(b) == IF b THEN "true" ELSE "false"
\* json.loads(value), PyNone standing for JSONDecodeError
JsonLoads(x) ==
    CASE x = "true" -> PyBool(TRUE)
      [] x = "false" -> PyBool(FALSE)
      [] x = "<json>" -> PyDoc
      [] OTHER -> PyNone
JsonDecodable(x) == x \in {"true", "false", "<json>"}

\* RedisClient.get_call_data: "if value:" json.loads, the raw string on JSONDecodeError
get_call_data(db, call, field) ==
    LET value == db[CallDataKey(call, field)]
    IN  IF value # Nil /\ value # ""
        THEN IF JsonDecodable(value) THEN JsonLoads(value) ELSE PyStr(value)
        ELSE PyNone
\* RedisClient.is_ai_speaking: value == "true"
is_ai_speaking(db, call) == PyBool(db[CallDataKey(call, FlagField)] = "true")
\* KEYS call:<call_id>:* - the keys the pattern of clear_call_cache matches
MatchesPattern(key, call) == Len(key) = 3 /\ key[1] = "call" /\ key[2] = call
\* clear_call_cache that deletes nothing
clear_call_cache_noop(db, call) == db

\* RedisClient.clear_call_cache (src/src/redis_client.py)
clear_call_cache(db, call) ==
    [k \in DOMAIN db |-> IF MatchesPattern(k, call) THEN Nil ELSE db[k]]
\* RedisClient.clear_call_cache (src/src/services/redis_client.py): a fixed key list
sv_clear_call_cache(db, call) ==
    [k \in DOMAIN db |-> IF k \in {SvKey(p, call) : p \in SvPrefixes} THEN Nil ELSE db[k]]

NoProbe == [op |-> "none", field |-> "", out |-> PyNone, set |-> [via |-> "none", v |-> FALSE],
            fresh |-> FALSE]

KvInit ==
    /\ kv = [k \in KvKeys |-> Nil]
    /\ lastSet = [via |-> "none", v |-> FALSE]
    /\ fresh = FALSE
    /\ probe = NoProbe
    /\ storeOps = 0

\* ---- DeepgramService.process_audio_stream: src/src/services/deepgram_service.py ----

DgSessions == {"A", "B"}
\* the n-th result produced for the audio of session s; n = 0 is the None sentinel
DgItem(s, n) == [origin |-> s, n |-> n]

DgInit ==
    /\ queues = << >>
    /\ rq = 0
    /\ dg = [s \in DgSessions |-> [st |-> "idle", on |-> 0, produced |-> 0, got |-> << >>]]

\* ---- trigger_outbound_call: src/src/ai_orchestrator.py ----

\* values of a request field: absent (None), empty, or a value
FieldValues == {Nil, "", "x"}
\* truth value of a field inside all([...])
FieldGiven(v) == v \notin {Nil, ""}
\* what get_ai_agent finds: an active or inactive agent, none, or a failed lookup
AgentStates == {"active", "inactive", "unknown", "lookup_error"}
\* SupabaseClient.get_ai_agent: None when nothing is found or the request fails
get_ai_agent(agent) ==
    CASE agent = "active" -> [found |-> TRUE, is_active |-> TRUE]
      [] agent = "inactive" -> [found |-> TRUE, is_active |-> FALSE]
      [] OTHER -> [found |-> FALSE, is_active |-> FALSE]

\* the endpoint without "except HTTPException: raise": the 404 raised inside
\* the try-block is turned into a 500 by the generic except-branch
trigger_outbound_call_no_reraise(from, to, agentId, agent, providerOk) ==
    IF ~(FieldGiven(from) /\ FieldGiven(to) /\ FieldGiven(agentId))
    THEN [code |-> 400, calls |-> 0]
    ELSE LET cfg == get_ai_agent(agent)
         IN  IF ~cfg.found \/ ~cfg.is_active THEN [code |-> 500, calls |-> 0]
             ELSE IF providerOk THEN [code |-> 200, calls |-> 1]
             ELSE [code |-> 500, calls |-> 0]

\* trigger_outbound_call: the status code answered and the number of calls
\* the provider has originated for the request
trigger_outbound_call(from, to, agentId, agent, providerOk) ==
    IF ~(FieldGiven(from) /\ FieldGiven(to) /\ FieldGiven(agentId))
    THEN [code |-> 400, calls |-> 0]
    ELSE LET cfg == get_ai_agent(agent)
         IN  IF ~cfg.found \/ ~cfg.is_active THEN [code |-> 404, calls |-> 0]
             ELSE IF providerOk THEN [code |-> 200, calls |-> 1]
             ELSE [code |-> 500, calls |-> 0]

NoTrigger == [from |-> Nil, to |-> Nil, agentId |-> Nil, agent |-> "unknown",
              providerOk |-> FALSE, code |-> 0, calls |-> 0]

ObInit ==
    /\ trig = NoTrigger
    /\ initiated = 0
    /\ triggers = 0

\* ---- inbound audio: socket, audio generator, sender task, result loop ----

AuInit ==
    /\ mode = "none"
    /\ inbox = << >>
    /\ arrived = 0
    /\ stopSent = FALSE
    /\ peerGone = FALSE
    /\ ctl = "idle"
    /\ audioQ = << >>
    /\ sender = "idle"
    /\ fed = 0
    /\ conn = "none"
    /\ produced = 0
    /\ results = << >>
    /\ gen = "idle"
    /\ heard = 0

\* ---- the agent configuration of a call ----

NoCfg == -1
CfgVersions == 0..MaxVersions

\* the webhook has stored the agent record as agent_config of the call
CfgInit ==
    /\ agentRec = 0
    /\ storedCfg = 0
    /\ snapshot = NoCfg
    /\ cfgMode = "none"
    /\ cfgUses = << >>

\* ---- the task set of an AIOrchestrator ----

TaskIds == 1..MaxTasks

TkInit ==
    /\ tasks = [t \in TaskIds |-> "none"]
    /\ activeTasks = {}
    /\ shutdown = FALSE
    /\ closePc = "idle"
    /\ gathered = {}
    /\ callbacks = {}
    /\ cancelReq = {}
    /\ refused = 0

\* ---- a ConnectionManager ----

Clients == {"a", "b", "c"}
GroupIds == {"g1", "g2"}

NoOp == [op |-> "none", client |-> "none", group |-> "none", targets |-> {}, ok |-> {},
         got |-> {}, raised |-> FALSE]

CmInit ==
    /\ active_connections = << >>
    /\ connection_metadata = {}
    /\ groups = << >>
    /\ cmLast = NoOp
    /\ cmOps = 0

\* a webhook with its response; n is its position among the deliveries
Hook(n, state, c, hasMedia, direction, routed, code, body) ==
    [n |-> n, state |-> state, call |-> c, media |-> hasMedia, direction |-> direction,
     routed |-> routed, code |-> code, body |-> body]
NoHook == Hook(0, "none", "none", FALSE, "none", FALSE, 0, "")

\* the session runs for a call whose record the answered webhook has created
WhInit ==
    /\ callRec = [c \in Calls |-> IF c = SessCall THEN "in-progress" ELSE "none"]
    /\ store = [c \in Calls |-> FALSE]
    /\ sessions = << >>
    /\ delivered = 0
    /\ lastHook = NoHook

Init ==
    /\ WhInit
    /\ KvInit
    /\ DgInit
    /\ ObInit
    /\ AuInit
    /\ CfgInit
    /\ TkInit
    /\ CmInit
    /\ impl \in Controllers
    /\ pc = "start"
    /\ cont = "none"
    /\ asrOpen = FALSE
    /\ asrEnded = FALSE
    /\ emitted = 0
    /\ queue = << >>
    /\ turn = 0
    /\ memory = << >>
    /\ segments = << >>
    /\ llmReqs = << >>
    /\ plays = << >>
    /\ curTask = 0
    /\ speaking = [k \in StoreKeys |-> FALSE]
    /\ wsClosed = FALSE
    /\ sent = << >>
    /\ bargeIns = {}
    /\ last = NoEvent
    /\ lastMedia = 0
    /\ faults = {}
    /\ closedIn = NotClosed

\* ---- environment ----

\* The recognizer emits an event; "close" is the last one of the stream.
AsrEmit ==
    /\ asrOpen /\ ~asrEnded /\ emitted < MaxEvents
    /\ \E e \in Events :
        /\ queue' = Append(queue, e)
        /\ asrEnded' = (e.kind = "close")
    /\ emitted' = emitted + 1
    /\ UNCHANGED <<auxVars, callRec, closedIn, faults, impl, pc, cont, asrOpen, turn, memory, segments, llmReqs,
                   plays, curTask, speaking, wsClosed, sent, lastMedia, bargeIns, last>>

\* The peer closes the connection.
PeerClose ==
    /\ ~wsClosed
    /\ wsClosed' = TRUE
    /\ closedIn' = IF pc = "llm" THEN [pc |-> "llm", turn |-> turn]
                   ELSE [pc |-> "elsewhere", turn |-> 0]
    /\ UNCHANGED <<auxVars, callRec, faults, impl, pc, cont, asrOpen, asrEnded, emitted, queue, turn, memory,
                   segments, llmReqs, plays, curTask, speaking, sent, lastMedia, bargeIns, last>>

\* ---- shared helpers of the controllers ----

\* call identifier and the PostgREST operator prefix, as token strings
CallId == <<"c1">>
EqOp == "eq."

\* a record of the transcript log; seq = 0 when the writer sets no
\* sequence_number; no writer sets a truncation mark
Segment(speaker, t, seqno) ==
    [call |-> CallId, speaker |-> speaker, turn |-> t, seq |-> seqno, truncated |-> FALSE]

\* the loop without its closure test
ClosedCheckSkipped(closed) == FALSE

\* "if websocket.closed: break" at the head of an iteration of the TTS loop
ClosedCheck(closed) == closed

SetPlay(i, field, v) == [plays EXCEPT ![i][field] = v]
\* the loop of playback i is left; how: "completed" (stream exhausted),
\* "closed" (websocket.closed seen), "error" (send raised), "cancelled"
\* (the stream object, and with it the mark of its failure, is dropped)
DonePlay(i, how) == [plays EXCEPT ![i].st = "done", ![i].how = how, ![i].silent = FALSE]

\* synthesize_speech_stream has yielded a chunk to the loop of playback i;
\* failed: synthesis raised and the chunk is the silent placeholder of the
\* except-branch, after which the stream is exhausted
Yielded(i, failed) == [plays EXCEPT ![i].n = @ + 1, ![i].silent = failed]
\* the same for a loop that sends a mark frame after every media frame
YieldedBeforeMark(i, failed) == [plays EXCEPT ![i].st = "mark", ![i].silent = failed]

\* a TTS stream whose failure reaches the loop as an exception
LoopExitsRaising(i) ==
    {h \in {"closed"} : plays[i].n < MaxChunks /\ ~plays[i].silent /\ ClosedCheck(wsClosed)}
    \cup {h \in {"completed"} : plays[i].n >= 1 /\ ~plays[i].silent}
    \cup {h \in {"error"} : plays[i].silent}

\* ways the TTS loop can be left when it waits for the next chunk
LoopExits(i) ==
    {h \in {"closed"} : plays[i].n < MaxChunks /\ ~plays[i].silent /\ ClosedCheck(wsClosed)}
    \cup {h \in {"completed"} : plays[i].n >= 1}

\* a playback is started: synthesize_speech_stream(...) is about to be iterated
StartPlay(p) ==
    /\ plays' = Append(plays, p)
    /\ sent' = Append(sent, 0)
    /\ UNCHANGED lastMedia

\* the playback the controller itself is streaming (it awaits it inline)
InlinePlay == Len(plays)

\* ---- controller "fn": src/ai_orchestrator.py ----

\* "if transcript:" (no strip)
FnAccepts(text) == text # << >>

FnStart ==
    /\ impl = "fn" /\ pc = "start"
    /\ pc' = "listening"
    /\ asrOpen' = TRUE
    /\ UNCHANGED <<auxVars, callRec, closedIn, faults, impl, cont, asrEnded, emitted, queue, turn, memory, segments,
                   llmReqs, plays, curTask, speaking, wsClosed, sent, lastMedia, bargeIns, last>>

\* finally-block of the handler: cancel the current task, clear the cache
FnTeardown ==
    /\ plays' = IF curTask # 0 /\ Alive(curTask) THEN SetPlay(curTask, "cancelled", TRUE) ELSE plays
    /\ speaking' = ClearCallCache(speaking)
    /\ pc' = "done"

\* an LLM request: the turn it answers, whether it carries the system prompt,
\* and the conversation history handed to the model
LlmRequest(t, system, history) == [turn |-> t, system |-> system, history |-> history]

\* conversation_memory[:-1]
ButLast(s) == IF s = << >> THEN << >> ELSE SubSeq(s, 1, Len(s) - 1)

\* the stored conversation memory of controller "fn": the exchange of the last
\* reply (last_user_input, last_ai_response), nothing before the first reply
get_conversation_memory(segs) ==
    LET ai == {k \in 1..Len(segs) : segs[k].speaker = "ai"} IN
    IF ai = {} THEN << >>
    ELSE LET last_k == CHOOSE k \in ai : \A j \in ai : j <= k IN
         <<[role |-> "user", turn |-> segs[last_k].turn],
           [role |-> "model", turn |-> segs[last_k].turn]>>

\* body of "async for dg_result in deepgram_stream_generator" for one event
FnEvent ==
    /\ impl = "fn" /\ pc = "listening" /\ queue # << >>
    /\ queue' = Tail(queue)
    /\ last' = Head(queue)
    /\ LET e == Head(queue) IN
       CASE e.kind = "speech_started" ->
              /\ IF StoreGet(speaking, CallKey) /\ curTask # 0 /\ Alive(curTask)
                 THEN /\ plays' = SetPlay(curTask, "cancelled", TRUE)
                      /\ bargeIns' = bargeIns \cup {curTask}
                 ELSE UNCHANGED <<plays, bargeIns>>
              /\ UNCHANGED <<pc, turn, segments, llmReqs, speaking, sent, lastMedia>>
         [] e.kind = "final" ->
              /\ IF FnAccepts(e.text)
                 THEN /\ turn' = turn + 1
                      /\ segments' = Append(segments, Segment("user", turn + 1, 0))
                      /\ llmReqs' = Append(llmReqs,
                                           LlmRequest(turn + 1, FALSE, get_conversation_memory(segments)))
                      /\ pc' = "llm"
                 ELSE UNCHANGED <<pc, turn, segments, llmReqs>>
              /\ UNCHANGED <<plays, bargeIns, speaking, sent, lastMedia>>
         [] e.kind = "error" ->
              /\ speaking' = StoreSet(speaking, CallKey, TRUE)
              /\ StartPlay(NewPlay("fallback", "fallback", 0))
              /\ pc' = "await_play"
              /\ UNCHANGED <<turn, segments, llmReqs, bargeIns>>
         [] e.kind = "interim" ->
              UNCHANGED <<pc, turn, segments, llmReqs, plays, bargeIns, speaking, sent, lastMedia>>
         [] e.kind = "close" ->
              /\ FnTeardown
              /\ UNCHANGED <<turn, segments, llmReqs, bargeIns, sent, lastMedia>>
    /\ UNCHANGED <<auxVars, callRec, closedIn, faults, impl, cont, asrOpen, asrEnded, emitted, memory, curTask, wsClosed>>

\* gemini generate_response returns: a text (the model's or a canned one) or nothing
FnLlmReply ==
    /\ impl = "fn" /\ pc = "llm"
    /\ \E r \in {"text", "empty", "fail"} :   \* "fail": a canned text is returned
        /\ faults' = IF r = "fail" THEN faults \cup {<<"llm", turn>>} ELSE faults
        /\ IF r # "empty"
           THEN /\ speaking' = StoreSet(speaking, CallKey, TRUE)
             /\ StartPlay(NewPlay("task", "reply", turn))
             /\ curTask' = Len(plays) + 1
             /\ segments' = Append(segments, Segment("ai", turn, 0))
           ELSE UNCHANGED <<speaking, plays, sent, lastMedia, curTask, segments>>
    /\ pc' = "listening"
    /\ UNCHANGED <<auxVars, callRec, closedIn, impl, cont, asrOpen, asrEnded, emitted, queue, turn, memory,
                   llmReqs, wsClosed, bargeIns, last>>

\* the coroutine without the write in its finally-block
FnTaskFinallyKeepsFlag(i, how) ==
    /\ plays' = DonePlay(i, how)
    /\ curTask' = 0
    /\ UNCHANGED speaking

\* finally-block of _tts_playback_coroutine
FnTaskFinally(i, how) ==
    /\ plays' = DonePlay(i, how)
    /\ speaking' = StoreSet(speaking, CallKey, FALSE)
    /\ curTask' = 0

\* one step of a _tts_playback_coroutine task
FnTaskStep ==
    /\ impl = "fn"
    /\ \E i \in AlivePlays :
        /\ plays[i].style = "task"
        /\ \/ /\ plays[i].cancelled                 \* CancelledError at the await
              /\ FnTaskFinally(i, "cancelled")
              /\ UNCHANGED <<sent, lastMedia>>
           \/ /\ ~plays[i].cancelled /\ plays[i].st = "next" /\ plays[i].n < MaxChunks
              /\ ~plays[i].silent
              /\ IF ClosedCheck(wsClosed)
                 THEN FnTaskFinally(i, "closed") /\ UNCHANGED <<sent, lastMedia>>
                 ELSE /\ SendMedia(i)
                      /\ \E failed \in BOOLEAN : plays' = YieldedBeforeMark(i, failed)
                      /\ UNCHANGED <<speaking, curTask>>
           \/ /\ ~plays[i].cancelled /\ plays[i].st = "next" /\ plays[i].n >= 1
              /\ FnTaskFinally(i, "completed")      \* the TTS stream is exhausted
              /\ UNCHANGED <<sent, lastMedia>>
           \/ /\ ~plays[i].cancelled /\ plays[i].st = "mark"
              /\ IF wsClosed
                 THEN FnTaskFinally(i, "error") /\ UNCHANGED <<sent, lastMedia>>   \* ws.send raises
                 ELSE /\ SendMark(i)
                      /\ plays' = [plays EXCEPT ![i].st = "next", ![i].n = @ + 1]
                      /\ UNCHANGED <<speaking, curTask>>
    /\ UNCHANGED <<auxVars, callRec, closedIn, faults, impl, pc, cont, asrOpen, asrEnded, emitted, queue, turn, memory,
                   segments, llmReqs, wsClosed, bargeIns, last>>

\* the inline fallback stream of the "error" branch (media frames only)
FnFallbackStep ==
    /\ impl = "fn" /\ pc = "await_play"
    /\ LET i == InlinePlay IN
       \/ /\ plays[i].n < MaxChunks /\ ~plays[i].silent /\ ~ClosedCheck(wsClosed)
          /\ SendMedia(i)
          /\ \E failed \in BOOLEAN : plays' = Yielded(i, failed)
          /\ UNCHANGED <<pc, speaking>>
       \/ \E how \in LoopExits(i) :
          /\ plays' = DonePlay(i, how)
          /\ speaking' = StoreSet(speaking, CallKey, FALSE)
          /\ pc' = "listening"
          /\ UNCHANGED <<sent, lastMedia>>
    /\ UNCHANGED <<auxVars, callRec, closedIn, faults, impl, cont, asrOpen, asrEnded, emitted, queue, turn, memory,
                   segments, llmReqs, curTask, wsClosed, bargeIns, last>>

\* ---- controller "orch": src/src/ai_orchestrator.py ----

\* "transcript = dg_result.get('transcript', '').strip()" then "if transcript:"
OrchAccepts(text) == Strip(text) # << >>

\* update_call_record(call_id, {"status": status, ...})
UpdateCallRecord(rec, c, status) == [rec EXCEPT ![c] = status]

\* _cleanup_call: the call record is completed, then the cache cleared; when
\* the update raises, the except-branch logs and the cache is left as it is
OrchCleanup ==
    /\ \E updateOk \in BOOLEAN :
         IF updateOk
         THEN /\ callRec' = UpdateCallRecord(callRec, SessCall, "completed")
              /\ speaking' = ClearCallCache(speaking)
         ELSE UNCHANGED <<callRec, speaking>>
    /\ pc' = "done"

\* _connect_and_handle_media up to the start of its greeting stream
OrchStart ==
    /\ impl = "orch" /\ pc = "start"
    /\ IF wsClosed
       THEN /\ \E graceful \in BOOLEAN :      \* ws.send raises ConnectionClosedOK or ...Error
                 IF graceful
                 THEN UNCHANGED <<callRec, speaking>>       \* only logged
                 ELSE /\ callRec' = UpdateCallRecord(callRec, SessCall, "failed")
                      /\ speaking' = ClearCallCache(speaking)
            /\ pc' = "done"
            /\ UNCHANGED <<plays, sent, lastMedia>>
       ELSE /\ speaking' = StoreSet(speaking, CallKey, TRUE)
            /\ StartPlay(NewPlay("connect_greeting", "greeting", 0))
            /\ pc' = "await_play"
            /\ UNCHANGED callRec
    /\ UNCHANGED <<auxVars, closedIn, faults, impl, cont, asrOpen, asrEnded, emitted, queue, turn, memory,
                   segments, llmReqs, curTask, wsClosed, bargeIns, last>>

\* greeting loop of _connect_and_handle_media (media frames only)
OrchConnectGreetingStep ==
    /\ impl = "orch" /\ pc = "await_play"
    /\ LET i == InlinePlay IN
       /\ plays[i].style = "connect_greeting"
       /\ \/ /\ plays[i].n < MaxChunks /\ ~plays[i].silent /\ ~ClosedCheck(wsClosed)
             /\ SendMedia(i)
             /\ \E failed \in BOOLEAN : plays' = Yielded(i, failed)
             /\ UNCHANGED <<pc, speaking>>
          \/ \E how \in LoopExits(i) :
             /\ plays' = DonePlay(i, how)
             /\ speaking' = StoreSet(speaking, CallKey, FALSE)
             /\ pc' = "handler"
             /\ UNCHANGED <<sent, lastMedia>>
    /\ UNCHANGED <<auxVars, callRec, closedIn, faults, impl, cont, asrOpen, asrEnded, emitted, queue, turn, memory,
                   segments, llmReqs, curTask, wsClosed, bargeIns, last>>

\* _handle_signalwire_media_stream up to its greeting (_send_tts_response)
OrchHandlerStart ==
    /\ impl = "orch" /\ pc = "handler"
    /\ speaking' = StoreSet(speaking, WsKey, TRUE)
    /\ StartPlay(NewPlay("send_tts", "greeting", 0))
    /\ cont' = "recv"
    /\ pc' = "await_play"
    /\ UNCHANGED <<auxVars, callRec, closedIn, faults, impl, asrOpen, asrEnded, emitted, queue, turn, memory,
                   segments, llmReqs, curTask, wsClosed, bargeIns, last>>

\* _send_tts_response: the loop, its finally-block, and what the caller does next
OrchSendTtsStep ==
    /\ impl = "orch" /\ pc = "await_play"
    /\ LET i == InlinePlay IN
       /\ plays[i].style = "send_tts"
       /\ \/ /\ plays[i].n < MaxChunks /\ ~plays[i].silent /\ ~ClosedCheck(wsClosed)
             /\ SendMedia(i)
             /\ \E failed \in BOOLEAN : plays' = Yielded(i, failed)
             /\ UNCHANGED <<pc, cont, speaking, segments, faults>>
          \/ \E how \in LoopExits(i) :
             /\ plays' = DonePlay(i, how)
             /\ speaking' = StoreSet(speaking, WsKey, FALSE)
             /\ IF cont = "log_ai"
                THEN /\ \E sinkOk \in BOOLEAN :     \* _log_ai_message swallows a failed write
                          /\ segments' = IF sinkOk THEN Append(segments, Segment("ai", turn, 0))
                                         ELSE segments
                          /\ faults' = IF sinkOk THEN faults ELSE faults \cup {<<"sink", turn>>}
                     /\ pc' = "listening"
                ELSE /\ pc' = cont
                     /\ UNCHANGED <<segments, faults>>
             /\ cont' = "none"
             /\ UNCHANGED <<sent, lastMedia>>
    /\ UNCHANGED <<auxVars, callRec, closedIn, impl, asrOpen, asrEnded, emitted, queue, turn, memory,
                   llmReqs, curTask, wsClosed, bargeIns, last>>

\* "message = await websocket.recv()" and the dispatch on its event tag
OrchRecv ==
    /\ impl = "orch" /\ pc = "recv"
    /\ IF wsClosed
       THEN /\ OrchCleanup                          \* ConnectionClosed
            /\ UNCHANGED asrOpen
       ELSE \E m \in {"media", "stop", "error"} :
              IF m = "media"
              THEN /\ asrOpen' = TRUE
                   /\ pc' = IF asrEnded /\ queue = << >> THEN "recv" ELSE "listening"
                   /\ UNCHANGED <<speaking, callRec>>
              ELSE /\ OrchCleanup
                   /\ UNCHANGED asrOpen
    /\ UNCHANGED <<auxVars, closedIn, faults, impl, cont, asrEnded, emitted, queue, turn, memory, segments,
                   llmReqs, plays, curTask, wsClosed, sent, lastMedia, bargeIns, last>>

\* body of "async for dg_result in deepgram_stream" for one event
OrchEvent ==
    /\ impl = "orch" /\ pc = "listening" /\ queue # << >>
    /\ queue' = Tail(queue)
    /\ last' = Head(queue)
    /\ LET e == Head(queue) IN
       CASE e.kind = "speech_started" ->
              /\ IF StoreGet(speaking, CallKey) /\ curTask # 0 /\ Alive(curTask)
                 THEN /\ plays' = SetPlay(curTask, "cancelled", TRUE)
                      /\ bargeIns' = bargeIns \cup {curTask}
                      /\ speaking' = StoreSet(speaking, CallKey, FALSE)
                      /\ pc' = "recv"
                 ELSE UNCHANGED <<plays, bargeIns, speaking, pc>>
              /\ UNCHANGED <<turn, segments, memory, llmReqs, faults>>
         [] e.kind = "final" ->
              /\ IF OrchAccepts(e.text)
                 THEN /\ turn' = turn + 1
                      /\ \E sinkOk \in BOOLEAN :    \* _log_user_message swallows a failed write
                           /\ segments' = IF sinkOk THEN Append(segments, Segment("user", turn + 1, 0))
                                          ELSE segments
                           /\ faults' = IF sinkOk THEN faults ELSE faults \cup {<<"sink", turn + 1>>}
                      /\ memory' = Append(memory, [role |-> "user", turn |-> turn + 1])
                      /\ llmReqs' = Append(llmReqs, LlmRequest(turn + 1, TRUE, ButLast(memory')))
                      /\ pc' = "llm"
                 ELSE UNCHANGED <<pc, turn, segments, memory, llmReqs, faults>>
              /\ UNCHANGED <<plays, bargeIns, speaking>>
         [] e.kind \in {"interim", "error"} ->
              UNCHANGED <<pc, turn, segments, memory, llmReqs, plays, bargeIns, speaking, faults>>
         [] e.kind = "close" ->
              /\ pc' = "recv"
              /\ UNCHANGED <<turn, segments, memory, llmReqs, plays, bargeIns, speaking, faults>>
    /\ UNCHANGED <<auxVars, callRec, closedIn, impl, cont, asrOpen, asrEnded, emitted, curTask, wsClosed, sent, lastMedia>>

\* rest of _get_ai_response after send_message: the reply is appended to
\* conversation_memory and the memory saved to the Session Store
OrchLlmReply ==
    /\ impl = "orch" /\ pc = "llm"
    /\ \E r \in {"text", "empty", "fail"} :
        /\ faults' = IF r = "fail" THEN faults \cup {<<"llm", turn>>} ELSE faults
        /\ IF r = "text"
           THEN /\ memory' = Append(memory, [role |-> "model", turn |-> turn])
             /\ pc' = "reply"
           ELSE /\ pc' = "listening"
             /\ UNCHANGED memory
    /\ UNCHANGED <<auxVars, callRec, closedIn, impl, cont, asrOpen, asrEnded, emitted, queue, turn, segments, llmReqs,
                   plays, curTask, speaking, wsClosed, sent, lastMedia, bargeIns, last>>

\* "if ai_response:" - start of _send_tts_response for the reply
OrchReply ==
    /\ impl = "orch" /\ pc = "reply"
    /\ \E storeOk \in BOOLEAN, finallyOk \in BOOLEAN :
        CASE storeOk ->
               /\ speaking' = StoreSet(speaking, WsKey, TRUE)
               /\ StartPlay(NewPlay("send_tts", "reply", turn))
               /\ cont' = "log_ai"
               /\ pc' = "await_play"
               /\ UNCHANGED <<faults, segments, callRec>>
          [] ~storeOk /\ finallyOk ->               \* the error is logged, nothing is sent
               /\ faults' = faults \cup {<<"store", turn>>}
               /\ speaking' = StoreSet(speaking, WsKey, FALSE)
               /\ segments' = Append(segments, Segment("ai", turn, 0))
               /\ pc' = "listening"
               /\ UNCHANGED <<plays, sent, lastMedia, cont, callRec>>
          [] OTHER ->                                \* the write in the finally-block raises too
               /\ faults' = faults \cup {<<"store", turn>>}
               /\ OrchCleanup
               /\ UNCHANGED <<plays, sent, lastMedia, cont, segments>>
    /\ UNCHANGED <<auxVars, closedIn, impl, asrOpen, asrEnded, emitted, queue, turn, memory,
                   llmReqs, curTask, wsClosed, bargeIns, last>>

\* ---- controller "pipe": src/src/core_ai_pipeline.py, src/src/server.py ----

\* the event loop without "if not user_transcript: continue"
PipeAcceptsAny(text) == TRUE

\* "user_transcript = result.get('transcript', '').strip()", "if not user_transcript: continue"
PipeAccepts(text) == Strip(text) # << >>

\* SupabaseClient.list_records: every filter value is prefixed with "eq."
\* and sent as a query parameter; the service returns the rows whose column
\* equals what follows the operator, ordered by sequence_number descending,
\* at most one row.
list_records(rows, filterValue) ==
    LET param == <<EqOp>> \o filterValue
        match == {k \in 1..Len(rows) : Head(param) = EqOp /\ rows[k].call = Tail(param)}
        top == {k \in match : \A j \in match : rows[j].seq <= rows[k].seq}
    IN  IF match = {} THEN << >> ELSE <<rows[CHOOSE k \in top : TRUE]>>

\* CoreAIPipeline._get_next_sequence; listOk = FALSE when list_records raises
get_next_sequence(rows, listOk) ==
    IF ~listOk THEN 1
    ELSE LET found == list_records(rows, <<EqOp>> \o CallId)
         IN  IF found # << >> THEN found[1].seq + 1 ELSE 1

\* the error leaves process_audio_stream; handle_websocket clears the cache
PipeFail ==
    /\ speaking' = ClearCallCache(speaking)
    /\ pc' = "done"

\* handle_websocket up to the start of the greeting stream
PipeStart ==
    /\ impl = "pipe" /\ pc = "start"
    /\ speaking' = StoreSet(speaking, CallKey, TRUE)
    /\ StartPlay(NewPlay("pipe_greeting", "greeting", 0))
    /\ pc' = "await_play"
    /\ UNCHANGED <<auxVars, callRec, closedIn, faults, impl, cont, asrOpen, asrEnded, emitted, queue, turn, memory,
                   segments, llmReqs, curTask, wsClosed, bargeIns, last>>

\* loop of _send_initial_greeting, then process_audio_stream starts
PipeGreetingStep ==
    /\ impl = "pipe" /\ pc = "await_play"
    /\ LET i == InlinePlay IN
       /\ plays[i].style = "pipe_greeting"
       /\ \/ /\ plays[i].n < MaxChunks /\ ~plays[i].silent /\ ~ClosedCheck(wsClosed)
             /\ SendMedia(i)
             /\ \E failed \in BOOLEAN : plays' = Yielded(i, failed)
             /\ UNCHANGED <<pc, speaking, asrOpen>>
          \/ \E how \in LoopExits(i) :
             /\ plays' = DonePlay(i, how)
             /\ speaking' = StoreSet(speaking, CallKey, FALSE)
             /\ pc' = "listening"
             /\ asrOpen' = TRUE
             /\ UNCHANGED <<sent, lastMedia>>
    /\ UNCHANGED <<auxVars, callRec, closedIn, faults, impl, cont, asrEnded, emitted, queue, turn, memory,
                   segments, llmReqs, curTask, wsClosed, bargeIns, last>>

\* body of "async for result in deepgram_stream" for one event
PipeEvent ==
    /\ impl = "pipe" /\ pc = "listening" /\ queue # << >>
    /\ queue' = Tail(queue)
    /\ last' = Head(queue)
    /\ LET e == Head(queue) IN
       CASE e.kind = "speech_started" ->
              /\ speaking' = IF StoreGet(speaking, CallKey)
                             THEN StoreSet(speaking, CallKey, FALSE) ELSE speaking
              /\ UNCHANGED <<pc, turn, segments, llmReqs, faults>>
         [] e.kind = "final" ->
              IF PipeAccepts(e.text)
              THEN /\ turn' = turn + 1
                   /\ \E listOk \in BOOLEAN, sinkOk \in BOOLEAN :
                        IF sinkOk
                        THEN /\ segments' = Append(segments,
                                    Segment("user", turn + 1, get_next_sequence(segments, listOk)))
                             /\ llmReqs' = Append(llmReqs, LlmRequest(turn + 1, TRUE, ButLast(memory)))
                             /\ pc' = "llm"
                             /\ UNCHANGED <<speaking, faults>>
                        ELSE /\ PipeFail             \* _log_user_message re-raises
                             /\ faults' = faults \cup {<<"sink", turn + 1>>}
                             /\ UNCHANGED <<segments, llmReqs>>
              ELSE UNCHANGED <<pc, turn, segments, llmReqs, speaking, faults>>
         [] e.kind \in {"interim", "error"} ->
              UNCHANGED <<pc, turn, segments, llmReqs, speaking, faults>>
         [] e.kind = "close" ->
              /\ PipeFail                            \* the stream ends, the handler returns
              /\ UNCHANGED <<turn, segments, llmReqs, faults>>
    /\ UNCHANGED <<auxVars, callRec, closedIn, impl, cont, asrOpen, asrEnded, emitted, memory, plays, curTask,
                   wsClosed, sent, lastMedia, bargeIns>>

\* rest of _generate_ai_response, then the start of _stream_tts_response
PipeLlmReply ==
    /\ impl = "pipe" /\ pc = "llm"
    /\ \E r \in {"text", "empty", "fail"}, storeOk \in BOOLEAN :
        CASE r = "text" /\ storeOk ->
               /\ speaking' = StoreSet(speaking, CallKey, TRUE)
               /\ StartPlay(NewPlay("stream_tts", "reply", turn))
               /\ pc' = "await_play"
               /\ UNCHANGED faults
          [] r = "text" /\ ~storeOk ->              \* set_call_data raises, the except-branch re-raises
               /\ faults' = faults \cup {<<"store", turn>>}
               /\ PipeFail
               /\ UNCHANGED <<plays, sent, lastMedia>>
          [] OTHER ->
               /\ faults' = IF r = "fail" THEN faults \cup {<<"llm", turn>>} ELSE faults
               /\ pc' = "listening"
               /\ UNCHANGED <<speaking, plays, sent, lastMedia>>
    /\ UNCHANGED <<auxVars, callRec, closedIn, impl, cont, asrOpen, asrEnded, emitted, queue, turn, memory,
                   segments, llmReqs, curTask, wsClosed, bargeIns, last>>

\* _stream_tts_response: the loop (media and mark frames), _log_ai_message,
\* the reset of the flag, and the except-branch
PipeStreamTtsStep ==
    /\ impl = "pipe" /\ pc = "await_play"
    /\ LET i == InlinePlay IN
       /\ plays[i].style = "stream_tts"
       /\ \/ /\ plays[i].st = "next" /\ plays[i].n < MaxChunks /\ ~plays[i].silent /\ ~ClosedCheck(wsClosed)
             /\ SendMedia(i)
             /\ \E failed \in BOOLEAN : plays' = YieldedBeforeMark(i, failed)
             /\ UNCHANGED <<pc, speaking, segments, faults>>
          \/ /\ plays[i].st = "mark" /\ ~wsClosed
             /\ SendMark(i)
             /\ plays' = [plays EXCEPT ![i].st = "next", ![i].n = @ + 1]
             /\ UNCHANGED <<pc, speaking, segments, faults>>
          \/ /\ plays[i].st = "mark" /\ wsClosed    \* websocket.send raises
             /\ plays' = DonePlay(i, "error")
             /\ PipeFail
             /\ UNCHANGED <<sent, lastMedia, segments, faults>>
          \/ /\ plays[i].st = "next"
             /\ \E how \in LoopExits(i) : plays' = DonePlay(i, how)
             /\ \E listOk \in BOOLEAN, sinkOk \in BOOLEAN :
                  IF sinkOk
                  THEN /\ segments' = Append(segments,
                              Segment("ai", turn, get_next_sequence(segments, listOk)))
                       /\ speaking' = StoreSet(speaking, CallKey, FALSE)
                       /\ pc' = "listening"
                       /\ UNCHANGED faults
                  ELSE /\ PipeFail                   \* _log_ai_message re-raises
                       /\ faults' = faults \cup {<<"sink", turn>>}
                       /\ UNCHANGED segments
             /\ UNCHANGED <<sent, lastMedia>>
    /\ UNCHANGED <<auxVars, callRec, closedIn, impl, cont, asrOpen, asrEnded, emitted, queue, turn, memory,
                   llmReqs, curTask, wsClosed, bargeIns, last>>

\* The per-utterance cap runs out after an interim result, with no final
\* result so far. No controller keeps a timer or looks at interim results
\* (they test is_final only), so nothing of the session changes; `last`
\* records that the cap has run out on that interim text.
UtteranceCapExpires ==
    /\ pc = "listening" /\ last.kind = "interim"
    /\ last' = Event("cap", last.text)
    /\ UNCHANGED <<auxVars, callRec, closedIn, faults, impl, pc, cont, asrOpen, asrEnded, emitted, queue,
                   turn, memory, segments, llmReqs, plays, curTask, speaking, wsClosed, sent,
                   lastMedia, bargeIns>>

Next ==
    \/ AsrEmit
    \/ UtteranceCapExpires
    \/ PeerClose
    \/ FnStart
    \/ FnEvent
    \/ FnLlmReply
    \/ FnTaskStep
    \/ FnFallbackStep
    \/ OrchStart
    \/ OrchConnectGreetingStep
    \/ OrchHandlerStart
    \/ OrchSendTtsStep
    \/ OrchRecv
    \/ OrchEvent
    \/ OrchLlmReply
    \/ OrchReply
    \/ PipeStart
    \/ PipeGreetingStep
    \/ PipeEvent
    \/ PipeLlmReply
    \/ PipeStreamTtsStep

Spec == Init /\ [][Next]_vars

\* ---- call bring-up: src/src/ai_orchestrator.py (webhook), src/ai_orchestrator.py (/ws) ----

WebhookInit ==
    /\ KvInit
    /\ DgInit
    /\ ObInit
    /\ AuInit
    /\ CfgInit
    /\ TkInit
    /\ CmInit
    /\ callRec = [c \in Calls |-> "none"]
    /\ store = [c \in Calls |-> FALSE]
    /\ sessions = << >>
    /\ delivered = 0
    /\ lastHook = NoHook
    /\ impl = "orch"
    /\ pc = "start"
    /\ cont = "none"
    /\ asrOpen = FALSE
    /\ asrEnded = FALSE
    /\ emitted = 0
    /\ queue = << >>
    /\ turn = 0
    /\ memory = << >>
    /\ segments = << >>
    /\ llmReqs = << >>
    /\ plays = << >>
    /\ curTask = 0
    /\ speaking = [k \in StoreKeys |-> FALSE]
    /\ wsClosed = FALSE
    /\ sent = << >>
    /\ bargeIns = {}
    /\ last = NoEvent
    /\ lastMedia = 0
    /\ faults = {}
    /\ closedIn = NotClosed

Running(c) == {i \in 1..Len(sessions) : sessions[i].call = c /\ sessions[i].st # "ended"}

\* the handler that answers every unrouted webhook with an empty body
RejectBodyEmpty(hasMedia, direction, routed, active) == ""

\* body of the 200 response to an "answered" webhook that starts no session;
\* routed: the phone number has an agent (inbound), client_state names one
\* (outbound); active: the agent exists and is active
RejectBody(hasMedia, direction, routed, active) ==
    CASE ~hasMedia -> ""
      [] direction = "inbound" /\ ~routed -> "No agent found"
      [] ~routed -> "Agent not determined"
      [] ~active -> "Agent not found or inactive"
      [] OTHER -> ""

\* signalwire_webhook_handler, state == "answered"
WebhookAnswered ==
    /\ delivered < MaxDeliveries
    /\ delivered' = delivered + 1
    /\ \E c \in Calls, hasMedia \in BOOLEAN, direction \in {"inbound", "outbound"},
          routed \in BOOLEAN, active \in BOOLEAN :
        /\ lastHook' = Hook(delivered + 1, "answered", c, hasMedia, direction, routed, 200,
                            RejectBody(hasMedia, direction, routed, active))
        /\ IF hasMedia /\ routed /\ active
           THEN /\ callRec' = [callRec EXCEPT ![c] = "in-progress"]
                /\ store' = [store EXCEPT ![c] = TRUE]
                /\ sessions' = Append(sessions, [call |-> c, via |-> "webhook", conn |-> 0,
                                                 st |-> "connecting"])
           ELSE UNCHANGED <<callRec, store, sessions>>   \* 200, nothing is created
    /\ UNCHANGED nonWhVars

\* signalwire_webhook_handler, state == "ended"
WebhookEnded ==
    /\ delivered < MaxDeliveries
    /\ delivered' = delivered + 1
    /\ \E c \in Calls :
        IF callRec[c] # "none"
        THEN /\ callRec' = UpdateCallRecord(callRec, c, "ended")
             /\ lastHook' = Hook(delivered + 1, "ended", c, FALSE, "none", FALSE, 200, "")
        ELSE /\ UNCHANGED callRec                   \* no row to update: the error answer
             /\ lastHook' = Hook(delivered + 1, "ended", c, FALSE, "none", FALSE, 500, "")
    /\ UNCHANGED <<store, sessions>>
    /\ UNCHANGED nonWhVars

\* _connect_and_handle_media: websockets.connect and the connect message
MediaConnect ==
    /\ \E i \in 1..Len(sessions) :
        /\ sessions[i].via = "webhook" /\ sessions[i].st = "connecting"
        /\ \E outcome \in {"ok", "error", "closed_ok"} :
            CASE outcome = "ok" ->
                   /\ sessions' = [sessions EXCEPT ![i].st = "streaming"]
                   /\ UNCHANGED <<callRec, store>>
              [] outcome = "error" ->
                   /\ sessions' = [sessions EXCEPT ![i].st = "ended"]
                   /\ callRec' = UpdateCallRecord(callRec, sessions[i].call, "failed")
                   /\ store' = [store EXCEPT ![sessions[i].call] = FALSE]
              [] OTHER ->                            \* ConnectionClosedOK: only logged
                   /\ sessions' = [sessions EXCEPT ![i].st = "ended"]
                   /\ UNCHANGED <<callRec, store>>
    /\ UNCHANGED <<delivered, lastHook>>
    /\ UNCHANGED nonWhVars

\* the ways AIOrchestrator._handle_signalwire_media_stream leaves its try-block
HandlerExitPaths == {"stop", "peer_close", "no_agent_config", "error"}

\* AIOrchestrator._handle_signalwire_media_stream returns: on every path the
\* finally-block runs _cleanup_call, which clears the cache only after the
\* update of the call record has succeeded
MediaHandlerEnd ==
    /\ \E i \in 1..Len(sessions), path \in HandlerExitPaths, updateOk \in BOOLEAN :
        /\ sessions[i].via = "webhook" /\ sessions[i].st = "streaming"
        /\ sessions' = [sessions EXCEPT ![i].st = "ended"]
        /\ IF updateOk
           THEN /\ callRec' = UpdateCallRecord(callRec, sessions[i].call, "completed")
                /\ store' = [store EXCEPT ![sessions[i].call] = FALSE]
           ELSE UNCHANGED <<callRec, store>>
    /\ UNCHANGED <<delivered, lastHook>>
    /\ UNCHANGED nonWhVars

\* /ws/{call_id}: a media frame read by the receive loop of connection k
\* starts _handle_signalwire_media_stream, which the loop awaits
WsMediaFrame ==
    /\ delivered < MaxDeliveries
    /\ delivered' = delivered + 1
    /\ \E c \in Calls, k \in 1..2, found \in {"ok", "no_call_data", "no_agent_config"} :
        /\ \A i \in Running(c) : ~(sessions[i].via = "ws" /\ sessions[i].conn = k)
        /\ found = "no_call_data" => ~store[c]
        /\ found = "no_agent_config" => store[c]
        /\ sessions' = Append(sessions, [call |-> c, via |-> "ws", conn |-> k,
                                         st |-> IF found = "ok" THEN "streaming" ELSE "ended"])
    \* "Call not found" / "Agent configuration not found": the handler raises
    \* before current_tts_task is bound, its finally-block fails on that name
    \* and clear_call_cache is not reached
    /\ UNCHANGED <<callRec, store, lastHook>>
    /\ UNCHANGED nonWhVars

\* _handle_signalwire_media_stream (src/ai_orchestrator.py) returns: the cache is cleared
WsHandlerEnd ==
    /\ \E i \in 1..Len(sessions) :
        /\ sessions[i].via = "ws" /\ sessions[i].st = "streaming"
        /\ sessions' = [sessions EXCEPT ![i].st = "ended"]
        /\ store' = [store EXCEPT ![sessions[i].call] = FALSE]
    /\ UNCHANGED <<callRec, delivered, lastHook>>
    /\ UNCHANGED nonWhVars

WebhookNext ==
    \/ WebhookAnswered
    \/ WebhookEnded
    \/ MediaConnect
    \/ MediaHandlerEnd
    \/ WsMediaFrame
    \/ WsHandlerEnd

SpecWebhook == WebhookInit /\ [][WebhookNext]_vars

\* C6: for every call identifier at most one media-stream handler exists at
\* any time.
OneSessionPerCall == \A c \in Calls : Cardinality(Running(c)) <= 1

\* ---- operations on the Session Store ----

\* set_call_data(call_id, 'is_ai_speaking', <bool>): the client library either
\* rejects a bool (the call raises, nothing is stored) or sends str(value)
KvSetFlag ==
    /\ storeOps < MaxStoreOps
    /\ storeOps' = storeOps + 1
    /\ \E b \in BOOLEAN, boolAccepted \in BOOLEAN :
        IF boolAccepted
        THEN /\ kv' = [kv EXCEPT ![CallDataKey(StoreCall, FlagField)] = StrOfBool(b)]
             /\ lastSet' = [via |-> "set_call_data", v |-> b]
             /\ fresh' = FALSE
        ELSE UNCHANGED <<kv, lastSet, fresh>>
    /\ UNCHANGED probe
    /\ UNCHANGED nonKvVars

\* set_ai_speaking(call_id, <bool>)
KvSetAiSpeaking ==
    /\ storeOps < MaxStoreOps
    /\ storeOps' = storeOps + 1
    /\ \E b \in BOOLEAN :
        /\ kv' = [kv EXCEPT ![CallDataKey(StoreCall, FlagField)] = LowerStrOfBool(b)]
        /\ lastSet' = [via |-> "set_ai_speaking", v |-> b]
    /\ fresh' = FALSE
    /\ UNCHANGED probe
    /\ UNCHANGED nonKvVars

\* set_call_data of a dict, list or str field; rpush for the transcript; the
\* setters of src/src/services/redis_client.py for its keys
KvSetField ==
    /\ storeOps < MaxStoreOps
    /\ storeOps' = storeOps + 1
    /\ \/ \E f \in CallFields \ {FlagField} :
            kv' = [kv EXCEPT ![CallDataKey(StoreCall, f)] =
                        IF f = "current_status" THEN "answered" ELSE "<json>"]
       \/ \E p \in SvPrefixes :
            kv' = [kv EXCEPT ![SvKey(p, StoreCall)] = IF p = "ai_speaking" THEN "1" ELSE "<json>"]
    /\ fresh' = FALSE
    /\ UNCHANGED <<lastSet, probe>>
    /\ UNCHANGED nonKvVars

\* clear_call_cache(call_id) of both clients
KvClear ==
    /\ storeOps < MaxStoreOps
    /\ storeOps' = storeOps + 1
    /\ kv' = sv_clear_call_cache(clear_call_cache(kv, StoreCall), StoreCall)
    /\ fresh' = TRUE
    /\ lastSet' = [via |-> "none", v |-> FALSE]
    /\ UNCHANGED probe
    /\ UNCHANGED nonKvVars

\* a read: get_call_data, is_ai_speaking, or a getter of the services client
KvRead ==
    /\ \/ \E f \in CallFields :
            probe' = [op |-> "get_call_data", field |-> f, out |-> get_call_data(kv, StoreCall, f),
                      set |-> lastSet, fresh |-> fresh]
       \/ probe' = [op |-> "is_ai_speaking", field |-> FlagField, out |-> is_ai_speaking(kv, StoreCall),
                    set |-> lastSet, fresh |-> fresh]
       \/ \E p \in SvPrefixes :
            probe' = [op |-> "sv_get", field |-> p,
                      out |-> IF kv[SvKey(p, StoreCall)] # Nil THEN PyStr(kv[SvKey(p, StoreCall)])
                              ELSE PyNone,
                      set |-> lastSet, fresh |-> fresh]
    /\ UNCHANGED <<kv, lastSet, fresh, storeOps>>
    /\ UNCHANGED nonKvVars

StoreNext ==
    \/ KvSetFlag
    \/ KvSetAiSpeaking
    \/ KvSetField
    \/ KvClear
    \/ KvRead

SpecStore == WebhookInit /\ [][StoreNext]_vars

\* C16: a read of the speaking flag through the getter paired with the setter
\* of the last write returns the value written.
FlagRoundTrip ==
    /\ (probe.op = "get_call_data" /\ probe.field = FlagField /\ probe.set.via = "set_call_data")
          => probe.out = PyBool(probe.set.v)
    /\ (probe.op = "is_ai_speaking" /\ probe.set.via \in {"set_call_data", "set_ai_speaking"})
          => probe.out = PyBool(probe.set.v)

DgStart ==
    /\ \E s \in DgSessions :
        /\ dg[s].st = "idle"
        /\ queues' = Append(queues, << >>)
        /\ rq' = Len(queues) + 1
        /\ dg' = [dg EXCEPT ![s].st = "running"]
    /\ UNCHANGED nonDgVars

\* on_message / on_speech_started / on_error of the connection of session s:
\* await self.results_queue.put(...)
DgCallback ==
    /\ \E s \in DgSessions :
        /\ dg[s].st \in {"running", "waiting"}
        /\ dg[s].produced < MaxDgEvents
        /\ queues' = [queues EXCEPT ![rq] = Append(@, DgItem(s, dg[s].produced + 1))]
        /\ dg' = [dg EXCEPT ![s].produced = @ + 1]
    /\ UNCHANGED rq
    /\ UNCHANGED nonDgVars

\* on_close of the connection of session s: the close event, then the sentinel
DgOnClose ==
    /\ \E s \in DgSessions :
        /\ dg[s].st \in {"running", "waiting"}
        /\ dg[s].produced = MaxDgEvents
        /\ queues' = [queues EXCEPT ![rq] = @ \o <<DgItem(s, MaxDgEvents + 1), DgItem(s, 0)>>]
        /\ dg' = [dg EXCEPT ![s].produced = @ + 1]
    /\ UNCHANGED rq
    /\ UNCHANGED nonDgVars

\* what the result loop does with an item taken from a queue
DgTake(s, q) ==
    /\ queues' = [queues EXCEPT ![q] = Tail(@)]
    /\ dg' = IF Head(queues[q]).n = 0
             THEN [dg EXCEPT ![s].st = "done"]                           \* sentinel: break
             ELSE [dg EXCEPT ![s].st = "running", ![s].got = Append(@, Head(queues[q]))]

\* "result = await self.results_queue.get()": the attribute is read now; an
\* empty queue suspends the loop on that queue object
DgLoop ==
    /\ \E s \in DgSessions :
        /\ dg[s].st = "running"
        /\ IF queues[rq] # << >>
           THEN DgTake(s, rq)
           ELSE /\ dg' = [dg EXCEPT ![s].st = "waiting", ![s].on = rq]
                /\ UNCHANGED queues
    /\ UNCHANGED rq
    /\ UNCHANGED nonDgVars

\* a suspended get() is resumed by a put on the queue it waits on
DgWake ==
    /\ \E s \in DgSessions :
        /\ dg[s].st = "waiting"
        /\ queues[dg[s].on] # << >>
        /\ DgTake(s, dg[s].on)
    /\ UNCHANGED rq
    /\ UNCHANGED nonDgVars

DgNext ==
    \/ DgStart
    \/ DgCallback
    \/ DgOnClose
    \/ DgLoop
    \/ DgWake

SpecDeepgram == WebhookInit /\ [][DgNext]_vars

\* C20: what a session has received is a prefix of the results produced for
\* its own audio, in the order they were produced.
OwnEventsInOrder ==
    \A s \in DgSessions :
        \A k \in 1..Len(dg[s].got) : dg[s].got[k] = DgItem(s, k)

\* ======================= properties of a call session =======================

\* the controller consumes a recognition event of kind k in this step
Consumes(k) ==
    /\ pc = "listening" /\ queue # << >>
    /\ Head(queue).kind = k
    /\ queue' = Tail(queue)

AssistantRecorded(t) ==
    \/ \E k \in 1..Len(memory) : memory[k].role = "model" /\ memory[k].turn = t
    \/ \E k \in 1..Len(segments) : segments[k].speaker = "ai" /\ segments[k].turn = t

UserRecorded(t) ==
    \/ \E k \in 1..Len(memory) : memory[k].role = "user" /\ memory[k].turn = t
    \/ \E k \in 1..Len(segments) : segments[k].speaker = "user" /\ segments[k].turn = t

PlaybackStarted(t) ==
    \E i \in 1..Len(plays) : plays[i].kind = "reply" /\ plays[i].turn = t

\* C1: at most one TTS playback is alive in every reachable state of a session.
AtMostOnePlaybackAlive == Cardinality(AlivePlays) <= 1

\* C2: when the controller handles SpeechStarted while the speaking flag is set
\* and an utterance is being played, then once the event is handled the playback
\* has stopped, the flag is cleared, the controller listens, and no frame of the
\* interrupted utterance is sent afterwards.
BargeInStopsPlayback ==
    [][(Consumes("speech_started") /\ StoreGet(speaking, CallKey) /\ AlivePlays # {})
        => /\ \A i \in AlivePlays : plays'[i].st = "done"
           /\ ~StoreGet(speaking', CallKey)
           /\ pc' = "listening"]_vars

\* C3: the speaking flag of the call is true exactly when a playback exists
\* that has already sent its first chunk.
SpeakingIffFirstChunkSent ==
    StoreGet(speaking, CallKey) <=> (\E i \in AlivePlays : sent[i] >= 1)

\* C4: in the conversation history every user turn is followed by exactly one
\* assistant turn before the next user turn (the last user turn may still wait
\* for its reply).
TurnsAlternate ==
    /\ \A k \in 1..(Len(memory) - 1) :
         /\ memory[k].role = "user" => memory[k + 1].role = "model"
         /\ memory[k].role = "model" => memory[k + 1].role = "user"
    /\ impl = "fn" =>
         \A k \in 1..(Len(segments) - 1) :
           /\ segments[k].speaker = "user" => segments[k + 1].speaker = "ai"
           /\ segments[k].speaker = "ai" => segments[k + 1].speaker = "user"

\* C5: the sequence numbers of the segments written to call_segments by the
\* pipeline are 1, 2, ..., n in write order.
SegmentSequenceGapFree ==
    impl = "pipe" => \A k \in 1..Len(segments) : segments[k].seq = k

\* C7: consuming a final transcript with empty text issues no LLM request,
\* appends nothing to history or transcript, starts no playback, and leaves
\* the controller listening.
EmptyFinalIgnored ==
    [][(Consumes("final") /\ Head(queue).text = << >>)
        => /\ llmReqs' = llmReqs
           /\ memory' = memory
           /\ segments' = segments
           /\ plays' = plays
           /\ pc' = "listening"]_vars

\* C7 witness: an empty final was the last event consumed, nothing was
\* requested or recorded, and the controller is about to take the next event.
EmptyFinalIgnoredWitness ==
    /\ last = Event("final", << >>)
    /\ pc = "listening" /\ queue # << >>
    /\ llmReqs = << >> /\ memory = << >> /\ segments = << >>

\* C8: once the peer connection is closed, no frame of any utterance is
\* delivered, and every step a playback loop takes leaves the loop.
NoFrameAfterPeerClose ==
    [][wsClosed =>
        /\ \A i \in 1..Len(sent) : sent'[i] = sent[i]
        /\ \A i \in 1..Len(plays) :
             (plays'[i].st # plays[i].st \/ plays'[i].n # plays[i].n)
                => plays'[i].st = "done"]_vars

\* C8 witness: a playback that had delivered frames was ended by the closure.
NoFrameAfterPeerCloseWitness ==
    /\ wsClosed
    /\ \E i \in 1..Len(plays) :
         /\ plays[i].st = "done" /\ plays[i].how \in {"closed", "error"}
         /\ sent[i] >= 1

\* C9: the user turn is recorded before its LLM request is issued; the
\* assistant turn is recorded only once its playback has started, and is
\* recorded while that playback is still running.
HistoryAppendOrder ==
    /\ \A k \in 1..Len(llmReqs) : UserRecorded(llmReqs[k].turn)
    /\ \A t \in 1..turn : AssistantRecorded(t) => PlaybackStarted(t)
    /\ \A t \in 1..turn : PlaybackStarted(t) => AssistantRecorded(t)

\* C10: an utterance interrupted by barge-in has an assistant record, and
\* that record is marked truncated.
BargeInRecordTruncated ==
    \A i \in bargeIns :
        \E k \in 1..Len(segments) :
            /\ segments[k].speaker = "ai" /\ segments[k].turn = plays[i].turn
            /\ segments[k].truncated

\* a greeting playback: kind "greeting"
Greetings == {i \in 1..Len(plays) : plays[i].kind = "greeting"}

\* C11: the greeting is played before any user turn is processed; once a
\* greeting has been played to its end it is recorded as an assistant turn
\* (turn 0) of the history, and with no playback left the flag is false.
GreetingPlayedAndRecorded ==
    /\ \A i \in Greetings : Alive(i) => turn = 0 /\ llmReqs = << >>
    /\ \A i \in Greetings :
         (plays[i].st = "done" /\ plays[i].how = "completed") => AssistantRecorded(0)
    /\ \A i \in Greetings :
         (plays[i].st = "done" /\ AlivePlays = {} /\ turn = 0) => ~StoreGet(speaking, CallKey)

\* C12: a user turn whose LLM request failed has a substitute utterance
\* played and an assistant turn recorded for it.
LlmFailureSpeaksSubstitute ==
    \A f \in faults :
        f[1] = "llm" => PlaybackStarted(f[2]) /\ AssistantRecorded(f[2])

\* C13: consuming an Error event of the recognizer starts the playback of
\* the fallback utterance.
AsrErrorPlaysFallback ==
    [][Consumes("error")
        => /\ Len(plays') = Len(plays) + 1
           /\ plays'[Len(plays')].kind = "fallback"]_vars

\* the step in which a failure of the given kind is met for turn t
FaultStep(kind, t) == <<kind, t>> \in faults' /\ <<kind, t>> \notin faults

\* C14: a failed Set(is_ai_speaking) does not end the session, and the reply
\* of that turn is still played.
StoreFailureTolerated ==
    [][\A t \in 1..turn :
         FaultStep("store", t)
            => /\ pc' # "done"
               /\ \E i \in 1..Len(plays') : plays'[i].kind = "reply" /\ plays'[i].turn = t]_vars

\* C15: a failed write to the Call Log Sink does not end the session, and
\* the LLM request of the turn is still issued.
SinkFailureTolerated ==
    [][\A t \in 1..(turn + 1) :
         FaultStep("sink", t)
            => /\ pc' # "done"
               /\ \E k \in 1..Len(llmReqs') : llmReqs'[k].turn = t]_vars

NoInterleavedMedia ==
    [][\A i \in 1..Len(plays) :
         (lastMedia' = i /\ lastMedia # i /\ lastMedia # 0) => sent[i] = 0]_vars

\* C21: once the teardown of the session has finished, no playback task of
\* the session is still running.
ChildTasksEndWithSession ==
    pc = "done" => \A i \in 1..Len(plays) : plays[i].style \in TaskStyles => ~Alive(i)

\* C22: when the peer closed the connection while the controller waited for
\* the LLM reply of a turn, no frame of the reply of that turn is sent, and
\* once the session is torn down the CallRecord has status ended-by-peer.
CloseDuringLlmEndsByPeer ==
    closedIn.pc = "llm" =>
        /\ \A i \in 1..Len(plays) :
             (plays[i].kind = "reply" /\ plays[i].turn = closedIn.turn) => sent[i] = 0
        /\ pc = "done" => callRec[SessCall] = "ended-by-peer"

\* ---- requests to the outbound-call endpoint ----

\* POST /trigger-call
TriggerOutboundCall ==
    /\ triggers < MaxTriggers
    /\ triggers' = triggers + 1
    /\ \E from \in FieldValues, to \in FieldValues, agentId \in FieldValues,
          agent \in AgentStates, providerOk \in BOOLEAN :
        LET out == trigger_outbound_call(from, to, agentId, agent, providerOk) IN
        /\ trig' = [from |-> from, to |-> to, agentId |-> agentId, agent |-> agent,
                    providerOk |-> providerOk, code |-> out.code, calls |-> out.calls]
        /\ initiated' = initiated + out.calls
    /\ UNCHANGED nonObVars

OutboundNext ==
    \/ TriggerOutboundCall

SpecOutbound == WebhookInit /\ [][OutboundNext]_vars

\* C26: the endpoint answers 400 when from_number, to_number or ai_agent_id
\* is missing, 404 when all are given and the agent is unknown or inactive,
\* 500 when the provider call fails; a request answered 400 or 404 has
\* originated no call at the provider.
OutboundErrorCodes ==
    triggers > 0 =>
      LET given == FieldGiven(trig.from) /\ FieldGiven(trig.to) /\ FieldGiven(trig.agentId) IN
      /\ ~given => trig.code = 400
      /\ (given /\ trig.agent \in {"unknown", "inactive"}) => trig.code = 404
      /\ (given /\ trig.agent = "active" /\ ~trig.providerOk) => trig.code = 500
      /\ trig.code \in {400, 404} => trig.calls = 0
      /\ initiated <= triggers

\* C26 witness: after a call was originated, a request for an inactive agent
\* was answered 404 and originated none.
OutboundErrorCodesWitness ==
    /\ initiated = 1 /\ triggers >= 2
    /\ trig.agent = "inactive" /\ trig.code = 404 /\ trig.calls = 0

\* ======================= properties of call bring-up =======================

\* a webhook is handled in this step
HookStep == lastHook'.n = delivered' /\ delivered' # delivered

\* the final statuses of a CallRecord
FinalStatuses == {"answered", "completed", "failed", "ended-by-peer", "abandoned"}
\* a status that marks the record as over, whatever its name
Terminal(status) == status \in FinalStatuses \cup {"ended"}

\* the call is over: its ended webhook was the last one handled, or every
\* media session started for it by the webhook has ended
CallEnded(c) ==
    /\ callRec[c] # "none"
    /\ \/ lastHook.state = "ended" /\ lastHook.call = c /\ lastHook.code = 200
       \/ /\ Running(c) = {}
          /\ \E i \in 1..Len(sessions) : sessions[i].call = c /\ sessions[i].via = "webhook"

\* C23: the status in the CallRecord of a call that is over is one of
\* answered, completed, failed, ended-by-peer, abandoned.
FinalStatusInSet == \A c \in Calls : CallEnded(c) => callRec[c] \in FinalStatuses

\* an "answered" inbound webhook whose number routes to no agent
Unrouted(h) == h.state = "answered" /\ h.direction = "inbound" /\ ~h.routed

\* C24: an answered inbound webhook whose to_number routes to no agent is
\* answered 200 with body "No agent found", and the step creates no call
\* record, no Session Store entry and no media session.
NoAgentFound ==
    [][(HookStep /\ Unrouted(lastHook'))
        => /\ lastHook'.code = 200 /\ lastHook'.body = "No agent found"
           /\ callRec' = callRec /\ store' = store /\ sessions' = sessions]_vars

\* C24, amended: the body is "No agent found" when the webhook carries a
\* media_url and empty when it carries none; in both cases the answer is 200
\* and nothing is created.
NoAgentFoundWithMediaUrl ==
    [][(HookStep /\ Unrouted(lastHook'))
        => /\ lastHook'.code = 200
           /\ lastHook'.body = IF lastHook'.media THEN "No agent found" ELSE ""
           /\ callRec' = callRec /\ store' = store /\ sessions' = sessions]_vars

\* C24 witness: an unrouted inbound webhook with a media_url was answered
\* "No agent found" after a session had been started for the other call, and
\* its own call has no record, no store entry and no session.
NoAgentFoundWitness ==
    /\ Unrouted(lastHook) /\ lastHook.media /\ lastHook.body = "No agent found"
    /\ callRec[lastHook.call] = "none" /\ ~store[lastHook.call]
    /\ \A i \in 1..Len(sessions) : sessions[i].call # lastHook.call
    /\ sessions # << >>

\* C25: the step that handles an ended webhook of a call that has a record
\* leaves the record terminal and no Session Store entry of the call.
EndedWebhookClearsCall ==
    [][\A c \in Calls :
         (HookStep /\ lastHook'.state = "ended" /\ lastHook'.call = c /\ callRec[c] # "none")
            => Terminal(callRec'[c]) /\ ~store'[c]]_vars

\* ======================= more properties of a call session =======================

\* C27: when the TTS stream of a playback has failed and yielded the silent
\* placeholder, the loop of the playback (peer connected, not cancelled, no
\* other collaborator failing in the step) is left as on a completed stream:
\* the flag is false afterwards and a session that was alive stays alive.
TtsFailureTolerated ==
    [][\A i \in AlivePlays :
         (/\ plays[i].silent /\ ~plays[i].cancelled /\ ~wsClosed
          /\ plays'[i].st = "done" /\ faults' = faults)
            => /\ plays'[i].how = "completed"
               /\ \A key \in StoreKeys : ~StoreGet(speaking', key)
               /\ pc # "done" => pc' # "done"]_vars

\* C27 witness: the stream of a reply failed after its first chunk, the
\* placeholder was delivered to the connected peer, and the loop is about to
\* find the stream exhausted.
TtsFailureToleratedWitness ==
    /\ \E i \in AlivePlays :
         /\ plays[i].kind = "reply" /\ plays[i].silent /\ ~plays[i].cancelled
         /\ plays[i].st = "next" /\ plays[i].n >= 2 /\ sent[i] >= 2
    /\ ~wsClosed /\ pc # "done"

\* ======================= the inbound audio path of a session =======================

\* the audio generator of the sender task yields, for the head of its source:
\* "chunk" (audio to send), "skip" (a message that is not audio), "end" (the
\* generator returns), or "wait" (nothing to read yet)
AudioSource ==
    CASE mode = "orch" ->
            IF audioQ = << >> THEN "wait"
            ELSE IF Head(audioQ) = "None" THEN "end" ELSE "chunk"
      [] mode = "fn" ->
            IF inbox = << >> THEN (IF peerGone THEN "end" ELSE "wait")
            ELSE IF Head(inbox) = "media" THEN "chunk" ELSE "skip"
      [] OTHER ->
            IF inbox = << >> THEN (IF peerGone THEN "end" ELSE "wait")
            ELSE IF Head(inbox) = "media" THEN "chunk" ELSE "end"

\* the controller starts the audio path: "fn" and "pipe" iterate the stream of
\* the recognizer at once, "orch" first waits for a message of the peer
AudioStart ==
    /\ mode = "none"
    /\ \E m \in Controllers :
        /\ mode' = m
        /\ IF m = "orch"
           THEN ctl' = "recv" /\ UNCHANGED <<conn, sender, gen>>
           ELSE ctl' = "events" /\ conn' = "open" /\ sender' = "running" /\ gen' = "running"
    /\ UNCHANGED <<nonAuVars, inbox, arrived, stopSent, peerGone, audioQ, fed, produced,
                   results, heard>>

\* the peer sends a media frame
PeerMedia ==
    /\ mode # "none" /\ ~peerGone /\ ~stopSent /\ arrived < MaxFrames
    /\ inbox' = Append(inbox, "media")
    /\ arrived' = arrived + 1
    /\ UNCHANGED <<nonAuVars, mode, stopSent, peerGone, ctl, audioQ, sender, fed, conn,
                   produced, results, gen, heard>>

\* the peer announces the end of its stream (the stop message; the disconnect
\* event of the binary protocol)
PeerStop ==
    /\ mode # "none" /\ ~peerGone /\ ~stopSent
    /\ inbox' = Append(inbox, "stop")
    /\ stopSent' = TRUE
    /\ UNCHANGED <<nonAuVars, mode, arrived, peerGone, ctl, audioQ, sender, fed, conn,
                   produced, results, gen, heard>>

\* the peer closes the transport
PeerHangup ==
    /\ mode # "none" /\ ~peerGone
    /\ peerGone' = TRUE
    /\ UNCHANGED <<nonAuVars, mode, inbox, arrived, stopSent, ctl, audioQ, sender, fed, conn,
                   produced, results, gen, heard>>

\* controller "orch": one pass of the main loop up to the iteration of the
\* recognizer stream; a stop message or a closed transport leaves the loop and
\* the handler puts the end marker into the audio queue
HandlerRecv ==
    /\ mode = "orch" /\ ctl = "recv"
    /\ inbox # << >> \/ peerGone
    /\ IF inbox # << >> /\ Head(inbox) = "media"
       THEN /\ inbox' = Tail(inbox)
            /\ audioQ' = Append(audioQ, "chunk")
            /\ CASE gen = "idle" ->
                      ctl' = "events" /\ conn' = "open" /\ sender' = "running" /\ gen' = "running"
                 [] gen = "running" ->
                      ctl' = "events" /\ UNCHANGED <<conn, sender, gen>>
                 [] OTHER ->
                      ctl' = "recv" /\ UNCHANGED <<conn, sender, gen>>
       ELSE /\ inbox' = IF inbox # << >> THEN Tail(inbox) ELSE inbox
            /\ audioQ' = Append(audioQ, "None")
            /\ ctl' = "done"
            /\ UNCHANGED <<conn, sender, gen>>
    /\ UNCHANGED <<nonAuVars, mode, arrived, stopSent, peerGone, fed, produced, results, heard>>

\* the sender task takes the next item of the audio generator: a chunk is sent
\* while the connection is open; when the generator has returned, or the
\* connection is not open, the task ends and puts a close event
SendAudio ==
    /\ sender = "running" /\ AudioSource # "wait"
    /\ audioQ' = IF mode = "orch" THEN Tail(audioQ) ELSE audioQ
    /\ inbox' = IF mode # "orch" /\ inbox # << >> THEN Tail(inbox) ELSE inbox
    /\ CASE AudioSource = "chunk" /\ conn = "open" ->
              fed' = fed + 1 /\ UNCHANGED <<sender, results>>
         [] AudioSource = "skip" ->
              UNCHANGED <<fed, sender, results>>
         [] OTHER ->
              /\ sender' = "done"
              /\ results' = Append(results, "close")
              /\ UNCHANGED fed
    /\ UNCHANGED <<nonAuVars, mode, arrived, stopSent, peerGone, ctl, conn, produced, gen, heard>>

\* the recognizer reports a result for audio it was sent
RecognizerResult ==
    /\ conn = "open" /\ produced < fed
    /\ produced' = produced + 1
    /\ results' = Append(results, "result")
    /\ UNCHANGED <<nonAuVars, mode, inbox, arrived, stopSent, peerGone, ctl, audioQ, sender, fed,
                   conn, gen, heard>>

\* the recognizer closes the connection of its own accord: the close handler
\* puts a close event and the end marker
RecognizerCloses ==
    /\ conn = "open"
    /\ conn' = "closed"
    /\ results' = results \o <<"close", "None">>
    /\ UNCHANGED <<nonAuVars, mode, inbox, arrived, stopSent, peerGone, ctl, audioQ, sender, fed,
                   produced, gen, heard>>

\* the result loop hands the next item of the results queue to the controller;
\* on the end marker the generator returns, finishing an open connection and
\* cancelling a running sender task (which then puts its close event)
NextResult ==
    /\ ctl = "events" /\ gen = "running" /\ results # << >>
    /\ IF Head(results) = "None"
       THEN /\ gen' = "ended"
            /\ conn' = "closed"
            /\ sender' = "done"
            /\ results' = IF sender = "running" THEN Append(Tail(results), "close")
                                                ELSE Tail(results)
            /\ ctl' = IF mode = "orch" THEN "recv" ELSE "done"
            /\ UNCHANGED heard
       ELSE /\ results' = Tail(results)
            /\ heard' = IF Head(results) = "result" THEN heard + 1 ELSE heard
            /\ UNCHANGED <<gen, conn, sender, ctl>>
    /\ UNCHANGED <<nonAuVars, mode, inbox, arrived, stopSent, peerGone, audioQ, fed, produced>>

AudioNext ==
    \/ AudioStart
    \/ PeerMedia
    \/ PeerStop
    \/ PeerHangup
    \/ HandlerRecv
    \/ SendAudio
    \/ RecognizerResult
    \/ RecognizerCloses
    \/ NextResult

\* every coroutine that can run is scheduled, and the recognizer reports on the
\* audio it has; the peer and a closure by the recognizer are not obliged
AudioFairness ==
    /\ WF_vars(AudioStart)
    /\ WF_vars(HandlerRecv)
    /\ WF_vars(SendAudio)
    /\ WF_vars(RecognizerResult)
    /\ WF_vars(NextResult)

SpecAudio == WebhookInit /\ [][AudioNext]_vars /\ AudioFairness

\* C28: while the session is active, every media frame that arrived from the
\* peer is eventually sent to the recognizer, also while the controller waits
\* for recognition events, and every result the recognizer reported is
\* eventually handed to the controller without the audio having to end.
AudioAndEventsConcurrent ==
    /\ \A k \in 1..MaxFrames : (arrived >= k) ~> (fed >= k \/ ctl = "done")
    /\ \A k \in 1..MaxFrames : (produced >= k) ~> (heard >= k \/ ctl = "done")

\* the inbound audio of the session has ended
AudioEnded == stopSent \/ peerGone

\* C29: when the inbound audio has ended (stop message or closed transport),
\* the recognizer stream is eventually finished, its event stream has
\* terminated and the controller's event loop has ended.
AudioEndEndsEventLoop ==
    AudioEnded ~> (conn # "open" /\ gen # "running" /\ ctl = "done")

\* ======================= the LLM request of a user turn =======================

\* h is the conversation before turn t, complete and in order: it holds every
\* earlier user turn and every reply that was played, only entries of earlier
\* turns, ordered by turn with the user's entry before the reply
CompleteHistory(h, t) ==
    /\ \A u \in 1..(t - 1) :
         /\ \E k \in 1..Len(h) : h[k] = [role |-> "user", turn |-> u]
         /\ PlaybackStarted(u) => \E k \in 1..Len(h) : h[k] = [role |-> "model", turn |-> u]
    /\ \A k \in 1..Len(h) : h[k].turn < t
    /\ \A j \in 1..Len(h), k \in 1..Len(h) :
         j < k => \/ h[j].turn < h[k].turn
                  \/ h[j].turn = h[k].turn /\ h[j].role = "user" /\ h[k].role = "model"

\* C30: every LLM request of a user turn carries the system prompt and the
\* complete conversation history before that turn, in order.
RequestCarriesPromptAndHistory ==
    \A k \in 1..Len(llmReqs) :
        /\ llmReqs[k].system
        /\ CompleteHistory(llmReqs[k].history, llmReqs[k].turn)

\* ======================= the stored conversation history =======================

\* the part of conversation_memory that the last successful reply saved
SavedMemory(mem) ==
    LET models == {k \in 1..Len(mem) : mem[k].role = "model"} IN
    IF models = {} THEN << >>
    ELSE SubSeq(mem, 1, CHOOSE k \in models : \A j \in models : j <= k)

\* the conversation history in the Session Store
StoredHistory(m, mem, segs) ==
    CASE m = "fn" -> get_conversation_memory(segs)
      [] m = "orch" -> SavedMemory(mem)
      [] OTHER -> << >>

IsPrefix(a, b) == Len(a) <= Len(b) /\ SubSeq(b, 1, Len(a)) = a

\* C31: during a call the stored conversation history only grows: the history
\* stored before a step is a prefix of the history stored after it.
StoredHistoryOnlyGrows ==
    [][IsPrefix(StoredHistory(impl, memory, segments),
                StoredHistory(impl', memory', segments'))]_vars

\* ======================= the agent configuration of a live call =======================

\* a handler that reads agent_config from the Session Store at every use
ConfigUsedFromStore(local, stored) == stored

\* the configuration a running handler works with: its local agent_config
ConfigUsed(local, stored) == local

\* the agent record is edited in management storage
AgentRecordChange ==
    /\ agentRec < MaxVersions
    /\ agentRec' = agentRec + 1
    /\ UNCHANGED <<nonCfgVars, storedCfg, snapshot, cfgMode, cfgUses>>

\* agent_config of the call is written again or removed in the Session Store
StoredConfigChange ==
    /\ \E v \in (CfgVersions \cup {NoCfg}) \ {storedCfg} : storedCfg' = v
    /\ UNCHANGED <<nonCfgVars, agentRec, snapshot, cfgMode, cfgUses>>

\* the handler starts: it reads agent_config once and opens the recognizer
\* stream with its language and model; without a stored value it returns
ConfigSessionStart ==
    /\ cfgMode = "none"
    /\ \E m \in {"orch", "pipe"} :
        /\ cfgMode' = IF storedCfg = NoCfg THEN "ended" ELSE m
        /\ snapshot' = storedCfg
        /\ cfgUses' = IF storedCfg = NoCfg THEN cfgUses
                      ELSE Append(cfgUses, [what |-> "asr", v |-> ConfigUsed(storedCfg, storedCfg)])
    /\ UNCHANGED <<nonCfgVars, agentRec, storedCfg>>

\* what the running handler takes from the configuration: the greeting and the
\* voice of an utterance, the system prompt of an LLM request
ConfigUse ==
    /\ cfgMode \in {"orch", "pipe"} /\ Len(cfgUses) <= MaxUses
    /\ \E what \in {"greeting", "prompt", "voice"} :
        cfgUses' = Append(cfgUses, [what |-> what, v |-> ConfigUsed(snapshot, storedCfg)])
    /\ UNCHANGED <<nonCfgVars, agentRec, storedCfg, snapshot, cfgMode>>

ConfigNext ==
    \/ AgentRecordChange
    \/ StoredConfigChange
    \/ ConfigSessionStart
    \/ ConfigUse

SpecConfig == WebhookInit /\ [][ConfigNext]_vars

AudioCapacity == MaxFrames - 1

\* number of audio chunks waiting in audio_queue
ChunksQueued == Cardinality({k \in 1..Len(audioQ) : audioQ[k] = "chunk"})

\* C33: the queue between the handler and the sender task is bounded: the
\* number of queued chunks never exceeds the capacity, and the handler does
\* not enqueue into a full queue.
AudioQueueBounded ==
    ChunksQueued <= AudioCapacity

\* ======================= interim results and the utterance cap =======================

\* C34: when the per-utterance cap runs out after an interim result without
\* a final one, the controller treats the interim text as final: the step
\* appends the user turn and issues the LLM request.
InterimTreatedAsFinalAtCap ==
    [][(last.kind = "interim" /\ last'.kind = "cap")
        => /\ turn' = turn + 1
           /\ UserRecorded(turn + 1)'
           /\ Len(llmReqs') = Len(llmReqs) + 1]_vars

\* ======================= the current-playback handle =======================

\* C35: a playback task that is still running is the one the session's
\* current-playback handle refers to, and the handle is empty only when no
\* playback of a reply is running.
HandleTracksPlayback ==
    /\ \A i \in AlivePlays : plays[i].style \in TaskStyles => curTask = i
    /\ curTask = 0 => \A i \in AlivePlays : plays[i].kind # "reply"

\* ======================= teardown of the media-stream handler =======================

\* the media-stream handler of session i has returned in this step
HandlerExits(i) ==
    /\ i \in 1..Len(sessions') /\ sessions'[i].st = "ended"
    /\ i \in 1..Len(sessions) => sessions[i].st = "streaming"

\* C36: on every exit path of a call's media-stream handler the teardown
\* clears the Session Store entries of the call.
HandlerExitClearsStore ==
    [][\A i \in 1..Len(sessions') : HandlerExits(i) => ~store'[sessions'[i].call]]_vars

\* ======================= the terminal status of a call record =======================

\* C37: once a call record has a terminal status, no later write (the ended
\* webhook, the teardown of the session, the failure branch of the media
\* connection) replaces it with a different terminal status.
TerminalStatusStable ==
    [][\A c \in Calls :
         (Terminal(callRec[c]) /\ Terminal(callRec'[c])) => callRec'[c] = callRec[c]]_vars

\* ======================= AIOrchestrator: _create_task and close =======================

Unfinished(t) == tasks[t] \in {"running", "cancelling"}

\* _create_task(coro): refused once the shutdown event is set; otherwise the
\* task is created, added to _active_tasks, and given its done callback
CreateTask ==
    /\ \E t \in TaskIds :
        /\ tasks[t] = "none"
        /\ IF shutdown
           THEN /\ refused < MaxTasks
                /\ refused' = refused + 1
                /\ UNCHANGED <<tasks, activeTasks>>
           ELSE /\ tasks' = [tasks EXCEPT ![t] = "running"]
                /\ activeTasks' = activeTasks \cup {t}
                /\ UNCHANGED refused
    /\ UNCHANGED <<nonTkVars, shutdown, closePc, gathered, callbacks, cancelReq>>

\* a task ends: its coroutine returns or raises, or the pending cancellation
\* is delivered; the done callback is scheduled
TaskEnds ==
    /\ \E t \in TaskIds :
        /\ Unfinished(t)
        /\ tasks' = [tasks EXCEPT ![t] = "done"]
        /\ callbacks' = callbacks \cup {t}
    /\ UNCHANGED <<nonTkVars, activeTasks, shutdown, closePc, gathered, cancelReq, refused>>

\* a task catches the CancelledError and goes on
TaskSwallowsCancel ==
    /\ \E t \in TaskIds :
        /\ tasks[t] = "cancelling"
        /\ tasks' = [tasks EXCEPT ![t] = "running"]
    /\ UNCHANGED <<nonTkVars, activeTasks, shutdown, closePc, gathered, callbacks, cancelReq, refused>>

\* the done callback of a finished task: _active_tasks.discard(task)
DoneCallback ==
    /\ \E t \in callbacks :
        /\ callbacks' = callbacks \ {t}
        /\ activeTasks' = activeTasks \ {t}
    /\ UNCHANGED <<nonTkVars, tasks, shutdown, closePc, gathered, cancelReq, refused>>

\* close() up to its await: the event is set, every task of _active_tasks
\* that is not done is cancelled, and gather is given the tasks of the set
CloseBegins ==
    /\ closePc = "idle"
    /\ shutdown' = TRUE
    /\ tasks' = [t \in TaskIds |-> IF t \in activeTasks /\ Unfinished(t) THEN "cancelling"
                                   ELSE tasks[t]]
    /\ cancelReq' = {t \in activeTasks : Unfinished(t)}
    /\ gathered' = activeTasks
    /\ closePc' = "gathering"
    /\ UNCHANGED <<nonTkVars, activeTasks, callbacks, refused>>

\* a close() that does not wait for the tasks
GatherSkipped(awaited) == TRUE

\* asyncio.gather(*tasks, return_exceptions=True) completes when every task
\* it was given is done
GatherDone(awaited) == \A t \in awaited : tasks[t] = "done"

\* close() after its await: _active_tasks.clear()
CloseReturns ==
    /\ closePc = "gathering" /\ GatherDone(gathered)
    /\ activeTasks' = {}
    /\ closePc' = "returned"
    /\ UNCHANGED <<nonTkVars, tasks, shutdown, gathered, callbacks, cancelReq, refused>>

TasksNext ==
    \/ CreateTask
    \/ TaskEnds
    \/ TaskSwallowsCancel
    \/ DoneCallback
    \/ CloseBegins
    \/ CloseReturns

SpecTasks == WebhookInit /\ [][TasksNext]_vars

\* C38: close() cancels every unfinished task created through _create_task
\* and returns only when all of them have finished, with _active_tasks empty;
\* once close() has been called, _create_task starts no task.
CloseCancelsAndAwaitsAll ==
    [][/\ (closePc = "idle" /\ closePc' # "idle")
           => \A t \in TaskIds : Unfinished(t) => t \in cancelReq'
       /\ closePc' = "returned"
           => activeTasks' = {} /\ \A t \in TaskIds : ~Unfinished(t)'
       /\ closePc # "idle"
           => \A t \in TaskIds : tasks[t] = "none" => tasks'[t] = "none"]_vars

\* C38 witness: close() has returned after cancelling a task that was still
\* running, and a later _create_task was refused.
CloseCancelsAndAwaitsAllWitness ==
    /\ closePc = "returned"
    /\ \E t \in cancelReq : tasks[t] = "done"
    /\ refused >= 1

\* ======================= ConnectionManager =======================

Range(seq) == {seq[k] : k \in 1..Len(seq)}

\* the sequence without its entries equal to x
RECURSIVE Without(_, _)
Without(seq, x) ==
    IF seq = << >> THEN << >>
    ELSE IF Head(seq) = x THEN Without(Tail(seq), x)
         ELSE <<Head(seq)>> \o Without(Tail(seq), x)

\* the orders in which a set can be iterated
Orders(S) == {o \in [1..Cardinality(S) -> S] : \A i, j \in 1..Cardinality(S) : o[i] = o[j] => i = j}

\* the state of a manager as a value
Manager(conns, meta, grps) == [conns |-> conns, meta |-> meta, groups |-> grps]

\* "for group_id, members in self.groups.items()" of disconnect: the client is
\* removed from each group; deleting an emptied group changes the size of the
\* dict under iteration, so the next step of the loop raises RuntimeError and
\* the groups after it are not visited
RECURSIVE RemoveFromGroups(_, _)
RemoveFromGroups(grps, c) ==
    IF grps = << >> THEN [groups |-> << >>, raised |-> FALSE]
    ELSE LET g == Head(grps) IN
         IF c \in g.members /\ g.members = {c}
         THEN [groups |-> Tail(grps), raised |-> TRUE]
         ELSE LET r == RemoveFromGroups(Tail(grps), c) IN
              [groups |-> <<[g EXCEPT !.members = @ \ {c}]>> \o r.groups, raised |-> r.raised]

\* disconnect(client_id): for a connected client, the loop over the groups,
\* then close() and the two del statements, which an exception of the loop skips
Disconnect(m, c) ==
    IF c \notin Range(m.conns) THEN [m |-> m, raised |-> FALSE]
    ELSE LET r == RemoveFromGroups(m.groups, c) IN
         IF r.raised
         THEN [m |-> Manager(m.conns, m.meta, r.groups), raised |-> TRUE]
         ELSE [m |-> Manager(Without(m.conns, c), m.meta \ {c}, r.groups), raised |-> FALSE]

\* the loop of broadcast over active_connections.items(), cs being the entries
\* not visited yet: a failed send disconnects the client, and a dict whose size
\* has changed makes the next step of the loop raise RuntimeError
RECURSIVE BroadcastLoop(_, _, _, _, _)
BroadcastLoop(cs, m, exclude, ok, got) ==
    IF cs = << >> THEN [m |-> m, got |-> got, raised |-> FALSE]
    ELSE LET c == Head(cs) IN
         IF c \in exclude THEN BroadcastLoop(Tail(cs), m, exclude, ok, got)
         ELSE IF c \in ok THEN BroadcastLoop(Tail(cs), m, exclude, ok, got \cup {c})
         ELSE LET d == Disconnect(m, c) IN
              IF d.raised \/ Len(d.m.conns) # Len(m.conns)
              THEN [m |-> d.m, got |-> got, raised |-> TRUE]
              ELSE BroadcastLoop(Tail(cs), d.m, exclude, ok, got)

\* the member set of group gid, empty when the group does not exist
Members(grps, gid) ==
    UNION {grps[k].members : k \in {j \in 1..Len(grps) : grps[j].id = gid}}

\* the loop of broadcast_to_group over self.groups[group_id], visited in the
\* order cs: a member that is not connected makes the lookup raise KeyError,
\* which is handled like a failed send; after disconnect the set under
\* iteration has changed size and the next step of the loop raises
RECURSIVE GroupLoop(_, _, _, _, _, _)
GroupLoop(cs, m, gid, exclude, ok, got) ==
    IF cs = << >> THEN [m |-> m, got |-> got, raised |-> FALSE]
    ELSE LET c == Head(cs) IN
         IF c \in exclude THEN GroupLoop(Tail(cs), m, gid, exclude, ok, got)
         ELSE IF c \in Range(m.conns) /\ c \in ok
              THEN GroupLoop(Tail(cs), m, gid, exclude, ok, got \cup {c})
         ELSE LET d == Disconnect(m, c) IN
              IF d.raised \/ Members(d.m.groups, gid) # Members(m.groups, gid)
              THEN [m |-> d.m, got |-> got, raised |-> TRUE]
              ELSE GroupLoop(Tail(cs), d.m, gid, exclude, ok, got)

\* add_to_group of a manager value
AddToGroup(grps, c, gid) ==
    IF \E k \in 1..Len(grps) : grps[k].id = gid
    THEN [k \in 1..Len(grps) |->
            IF grps[k].id = gid THEN [grps[k] EXCEPT !.members = @ \cup {c}] ELSE grps[k]]
    ELSE Append(grps, [id |-> gid, members |-> {c}])

Current == Manager(active_connections, connection_metadata, groups)

CmConnect ==
    /\ cmOps < MaxConnOps
    /\ cmOps' = cmOps + 1
    /\ \E c \in Clients \ Range(active_connections) :
        /\ active_connections' = Append(active_connections, c)
        /\ connection_metadata' = connection_metadata \cup {c}
        /\ cmLast' = [NoOp EXCEPT !.op = "connect", !.client = c]
    /\ UNCHANGED <<nonCmVars, groups>>

CmAddToGroup ==
    /\ cmOps < MaxConnOps
    /\ cmOps' = cmOps + 1
    /\ \E c \in Clients, gid \in GroupIds :
        /\ groups' = IF c \in Range(active_connections) THEN AddToGroup(groups, c, gid)
                     ELSE groups
        /\ cmLast' = [NoOp EXCEPT !.op = "add_to_group", !.client = c, !.group = gid]
    /\ UNCHANGED <<nonCmVars, active_connections, connection_metadata>>

CmDisconnect ==
    /\ cmOps < MaxConnOps
    /\ cmOps' = cmOps + 1
    /\ \E c \in Clients :
        LET d == Disconnect(Current, c) IN
        /\ active_connections' = d.m.conns
        /\ connection_metadata' = d.m.meta
        /\ groups' = d.m.groups
        /\ cmLast' = [NoOp EXCEPT !.op = "disconnect", !.client = c,
                                  !.targets = {c} \cap Range(active_connections),
                                  !.raised = d.raised]
    /\ UNCHANGED nonCmVars

CmBroadcast ==
    /\ cmOps < MaxConnOps
    /\ cmOps' = cmOps + 1
    /\ \E exclude \in SUBSET Clients, ok \in SUBSET Clients :
        LET r == BroadcastLoop(active_connections, Current, exclude, ok, {}) IN
        /\ active_connections' = r.m.conns
        /\ connection_metadata' = r.m.meta
        /\ groups' = r.m.groups
        /\ cmLast' = [NoOp EXCEPT !.op = "broadcast",
                                  !.targets = Range(active_connections) \ exclude,
                                  !.ok = ok, !.got = r.got, !.raised = r.raised]
    /\ UNCHANGED nonCmVars

CmBroadcastToGroup ==
    /\ cmOps < MaxConnOps
    /\ cmOps' = cmOps + 1
    /\ \E gid \in GroupIds, exclude \in SUBSET Clients, ok \in SUBSET Clients :
        \E order \in Orders(Members(groups, gid)) :
        LET cs == [k \in 1..Cardinality(Members(groups, gid)) |-> order[k]]
            r == GroupLoop(cs, Current, gid, exclude, ok, {}) IN
        /\ active_connections' = r.m.conns
        /\ connection_metadata' = r.m.meta
        /\ groups' = r.m.groups
        /\ cmLast' = [NoOp EXCEPT !.op = "broadcast_to_group", !.group = gid,
                                  !.targets = (Members(groups, gid) \cap Range(active_connections))
                                                 \ exclude,
                                  !.ok = ok, !.got = r.got, !.raised = r.raised]
    /\ UNCHANGED nonCmVars

ConnNext ==
    \/ CmConnect
    \/ CmAddToGroup
    \/ CmDisconnect
    \/ CmBroadcast
    \/ CmBroadcastToGroup

SpecConn == WebhookInit /\ [][ConnNext]_vars

\* C39: disconnect of a connected client does not raise and leaves the client
\* in no dict and no group, and no empty group behind.
DisconnectRemovesClient ==
    (cmLast.op = "disconnect" /\ cmLast.targets # {})
        => /\ ~cmLast.raised
           /\ cmLast.client \notin Range(active_connections)
           /\ cmLast.client \notin connection_metadata
           /\ \A k \in 1..Len(groups) :
                cmLast.client \notin groups[k].members /\ groups[k].members # {}

\* C40: broadcast and broadcast_to_group do not raise, deliver the message to
\* every connected target that is not excluded and whose send succeeds, and
\* disconnect every target whose send fails.
BroadcastReachesAll ==
    cmLast.op \in {"broadcast", "broadcast_to_group"}
        => /\ ~cmLast.raised
           /\ cmLast.got = cmLast.targets \cap cmLast.ok
           /\ \A c \in cmLast.targets \ cmLast.ok : c \notin Range(active_connections)

====
